---- MODULE Spec2Model ----
(***************************************************************************)
(* Model of the barcode-scanner serial protocol driver of                  *)
(* src/serial-reader.py (GM65 and M3Y-W dialects): checksums, frame codec, *)
(* command surface, baud-rate sweep and device detection.  The M3Y-W       *)
(* encoder of the earlier revision src/serial-reader-oo-refactor.py is     *)
(* modelled beside the current one.                                        *)
(***************************************************************************)
EXTENDS Integers, Sequences, FiniteSets, TLC

(***************************************************************************)
(* Bounds of the model.                                                    *)
(***************************************************************************)
\* longest payload carried by a generated reply buffer
MaxPayload == 2
\* largest value written in the length field of a generated reply buffer
MaxDeclared == 3
\* the latest read of a run that the link may damage
MaxFaultAt == 3
\* operations a caller runs one after the other on a settings-storing device
MaxCalls == 2
\* operations a caller runs against a device behind a faulty link
DriverCalls == 1
\* longest byte sequence handed to the checksum functions, besides the test vector
MaxData == 3

(***************************************************************************)
(* Bytes, bit operations and Python slicing.                               *)
(***************************************************************************)
Byte == 0..255

Min(a, b) == IF a < b THEN a ELSE b

\* a ^ b for two bytes, bit by bit
XorByte ==
    [a \in Byte |-> [b \in Byte |->
            (1 * (((a \div 1) + (b \div 1)) % 2)) +
            (2 * (((a \div 2) + (b \div 2)) % 2)) +
            (4 * (((a \div 4) + (b \div 4)) % 2)) +
            (8 * (((a \div 8) + (b \div 8)) % 2)) +
            (16 * (((a \div 16) + (b \div 16)) % 2)) +
            (32 * (((a \div 32) + (b \div 32)) % 2)) +
            (64 * (((a \div 64) + (b \div 64)) % 2)) +
            (128 * (((a \div 128) + (b \div 128)) % 2))]]

RECURSIVE Xor(_, _)
\* a ^ b on non-negative integers, a byte at a time
Xor(a, b) ==
    IF a = 0 THEN b
    ELSE IF b = 0 THEN a
    ELSE XorByte[a % 256][b % 256] + (256 * Xor(a \div 256, b \div 256))

RECURSIVE Pow2(_)
Pow2(n) == IF n < 8 THEN << 1, 2, 4, 8, 16, 32, 64, 128 >>[n + 1] ELSE 2 * Pow2(n - 1)

\* (val >> bit) & 1
check_bit(val, bit) == (val \div Pow2(bit)) % 2

\* val | (1 << bit)
set_bit(val, bit) == IF check_bit(val, bit) = 1 THEN val ELSE val + Pow2(bit)

\* val ^ (1 << bit)
toggle_bit(val, bit) == Xor(val, Pow2(bit))

\* val & ~(1 << bit)
clear_bit(val, bit) == IF check_bit(val, bit) = 1 THEN val - Pow2(bit) ELSE val

\* data[a:b] for 0 <= a, 0 <= b (Python clamps the slice to the sequence)
Slice(data, a, b) == SubSeq(data, a + 1, Min(b, Len(data)))

\* data[a:]
SliceFrom(data, a) == SubSeq(data, a + 1, Len(data))

\* bytes.hex(): two hexadecimal digits per byte, most significant first
RECURSIVE Hex(_)
Hex(data) ==
    IF data = << >> THEN << >>
    ELSE << Head(data) \div 16, Head(data) % 16 >> \o Hex(Tail(data))

\* Python's `needle in haystack` on strings
IsSubstring(needle, haystack) ==
    \E i \in 0..(Len(haystack) - Len(needle)) :
        SubSeq(haystack, i + 1, i + Len(needle)) = needle

\* flip the lowest bit of the last byte
Corrupt(data) ==
    [i \in 1..Len(data) |-> IF i = Len(data) THEN Xor(data[i], 1) ELSE data[i]]

\* int.to_bytes(2, byteorder='big')
to_bytes2(n) == << (n \div 256) % 256, n % 256 >>

(***************************************************************************)
(* Checksum library.                                                       *)
(***************************************************************************)
\* variant: the reduction XORs 0x1021 and leaves bit 16 standing
crc_reduce_1021(crc) == IF (crc \div 65536) % 2 # 0 THEN Xor(crc, 4129) ELSE crc

\* `if (crc & 0x10000) != 0: crc ^= 0x11021`
crc_reduce(crc) == IF (crc \div 65536) % 2 # 0 THEN Xor(crc, 69665) ELSE crc

\* variant: the data bit is never XORed in
crc_bit_step_blind(crc, bit) == crc_reduce(crc * 2)

\* one pass of the inner loop of compute_crc16_xmodem for data bit `bit`:
\* `crc *= 2`, the reduction, and `if (byte & (1 << i)) != 0: crc ^= 0x1021`
crc_bit_step(crc, bit) ==
    IF bit # 0 THEN Xor(crc_reduce(crc * 2), 4129) ELSE crc_reduce(crc * 2)

RECURSIVE crc_byte(_, _, _)
\* the inner loop: bits i, i-1, .. 0 of `byte` (the accumulator is never negative;
\* the comparison has it evaluated before the next pass)
crc_byte(crc, byte, i) ==
    IF crc < 0 \/ i < 0 THEN crc
    ELSE crc_byte(crc_bit_step(crc, check_bit(byte, i)), byte, i - 1)

RECURSIVE crc_acc(_, _)
\* the outer loop: the accumulator after all bytes of data
crc_acc(crc, data) ==
    IF crc < 0 \/ data = << >> THEN crc
    ELSE crc_acc(crc_byte(crc, Head(data), 7), Tail(data))

compute_crc16_xmodem(data) == to_bytes2(crc_acc(0, data) % 65536)

\* variant: no length test before the split
check_crc16_xmodem_unguarded(data_with_crc) ==
    SliceFrom(data_with_crc, Len(data_with_crc) - 2)
        = compute_crc16_xmodem(Slice(data_with_crc, 0, Len(data_with_crc) - 2))

check_crc16_xmodem(data_with_crc) ==
    IF Len(data_with_crc) < 3 THEN FALSE
    ELSE LET n == Len(data_with_crc)
         IN  SliceFrom(data_with_crc, n - 2)
               = compute_crc16_xmodem(Slice(data_with_crc, 0, n - 2))

RECURSIVE bcc_acc(_, _)
bcc_acc(bcc, data) ==
    IF bcc < 0 \/ data = << >> THEN bcc
    ELSE bcc_acc(Xor(bcc, Head(data)), Tail(data))

compute_bcc(data) == << bcc_acc(0, data) >>

check_bcc(data_with_bcc) ==
    IF Len(data_with_bcc) < 2 THEN FALSE
    ELSE LET n == Len(data_with_bcc)
         IN  SliceFrom(data_with_bcc, n - 1)
               = compute_bcc(Slice(data_with_bcc, 0, n - 1))

(***************************************************************************)
(* Dialect descriptors and frame codec.                                    *)
(***************************************************************************)
Dialects == << "GM65", "M3YW" >>

\* binascii.unhexlify('7e00')
GM65_tx_header == << 126, 0 >>

\* b'020000', as the hexadecimal digits of the string
GM65_header_ok == << 0, 2, 0, 0, 0, 0 >>

\* binascii.unhexlify('5a00')
M3YW_tx_header == << 90, 0 >>

\* variant: the transmit header 5a00 taken as the header-OK pattern
M3YW_header_ok_tx == << 5, 10, 0, 0 >>

\* variant: the header-OK pattern of GM65Scanner, b'020000', taken over
M3YW_header_ok_gm65 == << 0, 2, 0, 0, 0, 0 >>

\* b'5a01', as the hexadecimal digits of the string
M3YW_header_ok == << 5, 10, 0, 1 >>

\* binascii.unhexlify('a5')
M3YW_etx_bytes == << 165 >>

\* struct.calcsize("3sB") and struct.calcsize(">2sH")
GM65_header_len == 4

M3YW_header_len == 4

\* `return None, b''`
Failure == [ok |-> FALSE, reply |-> << >>, extra |-> << >>]

\* `return payload, leftover`
Decoded(payload, leftover) == [ok |-> TRUE, reply |-> payload, extra |-> leftover]

\* struct.unpack("3sB", d): struct.error unless d has exactly 4 bytes
GM65_unpack(d) ==
    IF Len(d) # GM65_header_len THEN [error |-> TRUE, header |-> << >>, data_len |-> 0]
    ELSE [error |-> FALSE, header |-> SubSeq(d, 1, 3), data_len |-> d[4]]

\* struct.unpack(">2sH", d): struct.error unless d has exactly 4 bytes
M3YW_unpack(d) ==
    IF Len(d) # M3YW_header_len THEN [error |-> TRUE, header |-> << >>, data_len |-> 0]
    ELSE [error |-> FALSE, header |-> SubSeq(d, 1, 2), data_len |-> (d[3] * 256) + d[4]]

\* variant: the checksum also covers the transmit header
GM65_create_tx_crc_header(command, value) ==
    LET raw_data == GM65_tx_header \o command \o value
        checksum == compute_crc16_xmodem(raw_data)
    IN  raw_data \o checksum

GM65_create_tx(command, value) ==
    LET raw_data == GM65_tx_header \o command \o value
        checksum == compute_crc16_xmodem(command \o value)
    IN  raw_data \o checksum

GM65_parse_rx(data) ==
    LET header_len == GM65_header_len
        u == GM65_unpack(Slice(data, 0, header_len))
    IN  IF u.error THEN Failure
        ELSE IF IsSubstring(Hex(u.header), GM65_header_ok)
                /\ check_crc16_xmodem(Slice(data, 1, header_len + u.data_len + 2))
             THEN Decoded(Slice(data, header_len, header_len + u.data_len),
                          SliceFrom(data, header_len + u.data_len + 2))
             ELSE Failure

\* serial-reader.py: "Value not used here in this reader"
M3YW_create_tx(command, value) ==
    LET command_len == to_bytes2(Len(command))
        raw_data == M3YW_tx_header \o command_len \o command
        checksum == compute_bcc(command_len \o command)
    IN  raw_data \o checksum \o M3YW_etx_bytes

\* the encoder of the earlier revision, which appends the value
M3YW_create_tx_oo(command, value) ==
    LET command_len == to_bytes2(Len(command))
        raw_data == M3YW_tx_header \o command_len \o command \o value
        checksum == compute_bcc(command_len \o command \o value)
    IN  raw_data \o checksum \o M3YW_etx_bytes

M3YW_parse_rx(data) ==
    LET header_len == M3YW_header_len
        u == M3YW_unpack(Slice(data, 0, header_len))
    IN  IF u.error THEN Failure
        ELSE IF IsSubstring(Hex(u.header), M3YW_header_ok)
                /\ check_bcc(Slice(data, header_len - 3, header_len + u.data_len + 1))
             THEN Decoded(Slice(data, header_len, header_len + u.data_len),
                          SliceFrom(data, header_len + u.data_len + 2))
             ELSE Failure

\* dispatch on the scanner class
create_tx(d, command, value) ==
    IF d = "GM65" THEN GM65_create_tx(command, value) ELSE M3YW_create_tx(command, value)

parse_rx(d, data) ==
    IF d = "GM65" THEN GM65_parse_rx(data) ELSE M3YW_parse_rx(data)
(***************************************************************************)
(* Command opcodes of the two scanner classes.                             *)
(***************************************************************************)
\* the opcode each GM65Scanner command sends
GM65_command ==
    [ \* binascii.unhexlify('070100e101')
      get_hw_version |-> << 7, 1, 0, 225, 1 >>,
      \* binascii.unhexlify('070100e201')
      get_sw_version |-> << 7, 1, 0, 226, 1 >>,
      \* binascii.unhexlify('070100e301')
      get_sw_year |-> << 7, 1, 0, 227, 1 >>,
      \* binascii.unhexlify('0701000001')
      get_settings |-> << 7, 1, 0, 0, 1 >>,
      \* binascii.unhexlify('08010000')
      set_settings |-> << 8, 1, 0, 0 >>,
      \* binascii.unhexlify('0901000000')
      save_settings |-> << 9, 1, 0, 0, 0 >>,
      \* binascii.unhexlify('08010005')
      set_read_interval |-> << 8, 1, 0, 5 >>,
      \* binascii.unhexlify('08010013')
      set_same_barcode_delay |-> << 8, 1, 0, 19 >>,
      \* binascii.unhexlify('0802002A')
      set_baudrate |-> << 8, 2, 0, 42 >> ]

\* the opcode each M3YWScanner command sends
M3YW_command ==
    [ \* b'T_OUT_CVER'
      get_sw_version |-> << 84, 95, 79, 85, 84, 95, 67, 86, 69, 82 >>,
      \* b'S_CMD_020E'
      set_continuous_mode |-> << 83, 95, 67, 77, 68, 95, 48, 50, 48, 69 >>,
      \* b'S_CMD_020D'
      set_command_mode |-> << 83, 95, 67, 77, 68, 95, 48, 50, 48, 68 >>,
      \* b'S_CMD_03L0'
      illumination_off |-> << 83, 95, 67, 77, 68, 95, 48, 51, 76, 48 >>,
      \* b'S_CMD_03L2'
      illumination_normal |-> << 83, 95, 67, 77, 68, 95, 48, 51, 76, 50 >>,
      \* b'S_CMD_03L1'
      illumination_on |-> << 83, 95, 67, 77, 68, 95, 48, 51, 76, 49 >>,
      \* b'S_CMD_03A0'
      aimer_off |-> << 83, 95, 67, 77, 68, 95, 48, 51, 65, 48 >>,
      \* b'S_CMD_03A2'
      aimer_normal |-> << 83, 95, 67, 77, 68, 95, 48, 51, 65, 50 >>,
      \* b'S_CMD_03A1'
      aimer_on |-> << 83, 95, 67, 77, 68, 95, 48, 51, 65, 49 >>,
      \* b'S_CMD_04F0'
      beeper_off |-> << 83, 95, 67, 77, 68, 95, 48, 52, 70, 48 >>,
      \* b'S_CMD_04F1'
      beeper_on |-> << 83, 95, 67, 77, 68, 95, 48, 52, 70, 49 >>,
      \* b'S_CMD_MARR'
      read_interval |-> << 83, 95, 67, 77, 68, 95, 77, 65, 82, 82 >>,
      \* b'S_CMD_MA31'
      same_barcode_prime1 |-> << 83, 95, 67, 77, 68, 95, 77, 65, 51, 49 >>,
      \* b'S_CMD_MA41'
      same_barcode_prime2 |-> << 83, 95, 67, 77, 68, 95, 77, 65, 52, 49 >>,
      \* b'S_CMD_MARI'
      same_barcode_delay |-> << 83, 95, 67, 77, 68, 95, 77, 65, 82, 73 >>,
      \* b'S_CMD_H3BR'
      set_baudrate |-> << 83, 95, 67, 77, 68, 95, 72, 51, 66, 82 >> ]

\* the opcodes of a scanner class
commands(d) ==
    IF d = "GM65" THEN { GM65_command[k] : k \in DOMAIN GM65_command }
    ELSE { M3YW_command[k] : k \in DOMAIN M3YW_command }

(***************************************************************************)
(* State.                                                                  *)
(***************************************************************************)
VARIABLES
    scanner,    \* the scanner class in use: "GM65" or "M3YW"
    pc,         \* position of the running operation
    revision,   \* source revision of the encoder: "serial-reader" or "oo-refactor"
    command,    \* create_tx: the opcode bytes
    value,      \* create_tx: the argument bytes
    tx_data,    \* the frame create_tx returned
    rx_data,    \* parse_rx: the receive buffer `data`
    parsed,     \* what parse_rx returned
    origin,     \* where rx_data came from: "device" or "loopback"
    cs_data,    \* compute_checksum: the bytes `data` to protect
    cs_crc,     \* compute_crc16_xmodem: the accumulator `crc`
    byte_idx,   \* compute_crc16_xmodem: position of `byte` in data
    bit_i,      \* compute_crc16_xmodem: the bit number i of the inner loop
    data_with_crc, \* check_checksum: the bytes followed by their checksum
    verified,   \* what check_checksum returned
    line,       \* the chunks the transport has yet to hand to serial_port.read
    elapsed,    \* capture loop: time.time() - start, in whole seconds
    baudrate,   \* serial_port.baudrate
    trace,      \* what happened on the transport: writes, reads, baud-rate changes
    dev,        \* the scanner module on the other end of the serial link
    env,        \* what the link delivers: junk when nothing answers, one faulty read
    op,         \* the operation running or last run, with its argument
    calls,      \* the completed operations with their results, oldest first
    calls_left, \* how many more operations the caller starts
    scanner_idx, \* detect_scanner: position in [GM65Scanner, M3YWScanner]
    baud_idx,   \* find_baudrate: position in common_baud_rates
    found       \* find_baudrate: the rate returned, 0 for None

checksum_vars == << cs_data, cs_crc, byte_idx, bit_i, data_with_crc, verified >>

wait_vars == << line, elapsed >>

codec_vars == << revision, command, value, tx_data, rx_data, parsed, origin,
                 checksum_vars, wait_vars >>

driver_vars == << baudrate, trace, dev, env, op, calls, calls_left,
                  scanner_idx, baud_idx, found >>

vars == << scanner, pc, codec_vars, driver_vars >>

(***************************************************************************)
(* Transport, device and results.                                          *)
(***************************************************************************)
\* the rates of the sweep, as int(baudrate) of each entry
common_baud_rates == << 9600, 14400, 19200, 38400, 57600, 115200 >>

Rates == { common_baud_rates[i] : i \in 1..Len(common_baud_rates) }

\* the rate the serial port is opened at when --baudrate is not given
default_baudrate == 9600

\* transport events
Event(ev, data, baud) == [ev |-> ev, data |-> data, baud |-> baud]

Writes(tr) == SelectSeq(tr, LAMBDA e : e.ev = "write")

Reads(tr) == SelectSeq(tr, LAMBDA e : e.ev = "read")

\* what an operation hands back: a (reply, extra) pair, a (flag, None) pair, a plain
\* value, or an exception
NoResult ==
    [kind |-> "none", error |-> "", ok |-> FALSE, reply |-> << >>, extra |-> << >>,
     flag |-> FALSE, val |-> "", num |-> 0]

\* return reply, extra
ReturnPair(r) == [NoResult EXCEPT !.kind = "pair", !.ok = r.ok, !.reply = r.reply,
                                   !.extra = r.extra]

\* return True, None / return False, None
ReturnFlag(b) == [NoResult EXCEPT !.kind = "flag", !.flag = b]

\* return True / False / None, a scanner
ReturnVal(v) == [NoResult EXCEPT !.kind = "value", !.val = v]

\* return baudrate
ReturnNum(n) == [NoResult EXCEPT !.kind = "number", !.num = n]

Raise(e) == [NoResult EXCEPT !.kind = "raise", !.error = e]

\* Python truth of a reply: None and b'' are false
Truthy(r) == r.ok /\ r.reply # << >>

\* the transport and the device behind it, as one value threaded through a call
World == [dev |-> dev, trace |-> trace, baudrate |-> baudrate]

Out(w, res) == [w |-> w, res |-> res]

\* str(n).encode() for n >= 0
RECURSIVE Str(_)
Str(n) == IF n < 10 THEN << 48 + n >> ELSE Str(n \div 10) \o << 48 + (n % 10) >>

(***************************************************************************)
(* The scanner module: it answers a well-formed frame of its own dialect    *)
(* received at its own rate, in the receive grammar parse_rx verifies.     *)
(***************************************************************************)
GM65_reply_frame(payload) ==
    << 2, 0, 0, Len(payload) >> \o payload
        \o compute_crc16_xmodem(<< 0, 0, Len(payload) >> \o payload)

M3YW_reply_frame(payload) ==
    << 90, 1 >> \o to_bytes2(Len(payload)) \o payload
        \o compute_bcc(<< 1 >> \o to_bytes2(Len(payload)) \o payload) \o M3YW_etx_bytes

reply_frame(d, payload) ==
    IF d = "GM65" THEN GM65_reply_frame(payload) ELSE M3YW_reply_frame(payload)

\* a frame the device of dialect d recognises
DeviceFrameOk(d, tx) ==
    IF d = "GM65"
    THEN /\ Len(tx) >= 7
         /\ SubSeq(tx, 1, 2) = GM65_tx_header
         /\ check_crc16_xmodem(SliceFrom(tx, 2))
    ELSE /\ Len(tx) >= 6
         /\ SubSeq(tx, 1, 2) = M3YW_tx_header
         /\ tx[Len(tx)] = 165
         /\ (tx[3] * 256) + tx[4] = Len(tx) - 6
         /\ check_bcc(SubSeq(tx, 3, Len(tx) - 1))

\* GM65 baud-rate register values, as cmd_set_baudrate sends them
GM65_baudvalues(rate) ==
    CASE rate = 9600 -> << 57, 1 >>
      [] rate = 14400 -> << 208, 0 >>
      [] rate = 19200 -> << 156, 0 >>
      [] rate = 38400 -> << 78, 0 >>
      [] rate = 57600 -> << 52, 0 >>
      [] rate = 115200 -> << 26, 0 >>

\* GM65 frame body: type, length, 2-byte address, data
GM65_body(tx) == SubSeq(tx, 3, Len(tx) - 2)

\* the payload a GM65 module answers with: a zone byte for a read, 00 for a write or
\* a save, nothing for a body it does not know
GM65_device_payload(d, tx) ==
    LET b == GM65_body(tx)
    IN  IF b = GM65_command.get_settings THEN << d.settings >>
        ELSE IF b = GM65_command.get_sw_version THEN << d.sw_version >>
        ELSE IF b = GM65_command.get_hw_version THEN << 100 >>
        ELSE IF b = GM65_command.get_sw_year THEN << 24 >>
        ELSE IF b[1] \in { 8, 9 } THEN << 0 >>
        ELSE << >>

\* the M3Y-W command string of a frame
M3YW_body(tx) == SubSeq(tx, 5, Len(tx) - 2)

M3YW_device_payload(d, tx) ==
    IF M3YW_body(tx) = M3YW_command.get_sw_version THEN << 86, d.sw_version >>
    ELSE IF Len(M3YW_body(tx)) >= 10 /\ SubSeq(M3YW_body(tx), 1, 6) = << 83, 95, 67, 77, 68, 95 >>
         THEN << 6 >>
         ELSE << >>

\* the device hears tx: at its own rate, in its own dialect
Addressed(w, tx) ==
    /\ w.dev.dialect # "none"
    /\ w.baudrate = w.dev.baud
    /\ DeviceFrameOk(w.dev.dialect, tx)

\* what the device sends back when it hears tx (nothing for an unknown body)
DeviceReply(d, tx) ==
    LET payload == IF d.dialect = "GM65" THEN GM65_device_payload(d, tx)
                   ELSE M3YW_device_payload(d, tx)
    IN  IF payload = << >> THEN << >> ELSE reply_frame(d.dialect, payload)

\* the device after it heard tx: a write to the settings zone is stored, a
\* baud-rate command moves the device to the new rate if it is a rate the device
\* accepts
DeviceAfter(d, tx) ==
    IF d.dialect = "GM65"
    THEN LET b == GM65_body(tx)
         IN  IF Len(b) = 5 /\ SubSeq(b, 1, 4) = GM65_command.set_settings
             THEN [d EXCEPT !.settings = b[5]]
             ELSE IF \E r \in d.accepts : b = GM65_command.set_baudrate \o GM65_baudvalues(r)
             THEN [d EXCEPT !.baud =
                      CHOOSE r \in d.accepts :
                          b = GM65_command.set_baudrate \o GM65_baudvalues(r)]
             ELSE d
    ELSE IF \E r \in d.accepts : M3YW_body(tx) = M3YW_command.set_baudrate \o Str(r)
         THEN [d EXCEPT !.baud =
                  CHOOSE r \in d.accepts :
                      M3YW_body(tx) = M3YW_command.set_baudrate \o Str(r)]
         ELSE d

\* a reply damaged on the way
FaultKinds == { "silent", "short", "truncated", "bad_checksum", "bad_header",
                "empty_payload" }

Faulted(kind, d, frame) ==
    CASE kind = "silent" -> << >>
      [] kind = "short" -> Slice(frame, 0, 3)
      [] kind = "truncated" -> Slice(frame, 0, Len(frame) - 1)
      [] kind = "bad_checksum" ->
            IF d = "GM65" THEN Corrupt(frame)
            ELSE Corrupt(Slice(frame, 0, Len(frame) - 1)) \o SliceFrom(frame, Len(frame) - 1)
      [] kind = "bad_header" ->
            [i \in 1..Len(frame) |-> IF i = 2 THEN Xor(frame[i], 2) ELSE frame[i]]
      [] kind = "empty_payload" -> reply_frame(d, << >>)
      [] OTHER -> frame

\* what a read finds when no device answers: nothing, or line noise that is no frame
Noise == { << >>, << 0 >>, << 255, 255, 255, 255, 255, 255 >> }

\* ... or garbage that begins like a reply: 02 00 00, length 3, and two more bytes
Junk == Noise \cup { << 2, 0, 0, 3, 48, 99 >> }

\* serial_port.read(1024) after tx was written: the device's answer, junk when no
\* device hears the frame, and the one faulty read of this run
ReadAfter(w, answer) ==
    IF answer = << >> THEN env.junk
    ELSE IF env.fault_at = Len(Reads(w.trace)) + 1
         THEN Faulted(env.fault, w.dev.dialect, answer)
         ELSE answer

(***************************************************************************)
(* BaseScanner.                                                            *)
(***************************************************************************)
\* variant: the frame is written and the operation goes on without reading
exchange_unread(d, w, tx, rx) ==
    Out([w EXCEPT !.trace = @ \o << Event("write", tx, w.baudrate) >>,
                  !.dev = IF Addressed(w, tx) THEN DeviceAfter(w.dev, tx) ELSE @],
        ReturnPair(Failure))

\* the port after tx was written and rx was read, with what parse_rx makes of rx
exchange(d, w, tx, rx) ==
    Out([w EXCEPT !.trace = @ \o << Event("write", tx, w.baudrate),
                                    Event("read", rx, w.baudrate) >>,
                  !.dev = IF Addressed(w, tx) THEN DeviceAfter(w.dev, tx) ELSE @],
        ReturnPair(parse_rx(d, rx)))

\* send_and_parse of scanner class d: write, one read, parse_rx
send_and_parse(d, w, tx) ==
    exchange(d, w, tx,
             ReadAfter(w, IF Addressed(w, tx) THEN DeviceReply(w.dev, tx) ELSE << >>))

\* variant: the placeholder hands back the failure pair (None, b'')
not_implemented_silent(w) == Out(w, ReturnPair(Failure))

\* the placeholder command methods of BaseScanner
not_implemented(w) == Out(w, Raise("NotImplementedError"))

\* variant: the rate is noted but the port keeps its rate
set_port_baudrate_kept(w, rate) ==
    [w EXCEPT !.trace = @ \o << Event("baudrate", << >>, rate) >>]

\* self.serial_port.baudrate = value
set_port_baudrate(w, rate) ==
    [w EXCEPT !.baudrate = rate, !.trace = @ \o << Event("baudrate", << >>, rate) >>]

(***************************************************************************)
(* GM65Scanner commands.                                                   *)
(***************************************************************************)
GM65_cmd_get_hw_version(w) ==
    send_and_parse("GM65", w, GM65_create_tx(GM65_command.get_hw_version, << >>))

GM65_cmd_get_sw_version(w) ==
    send_and_parse("GM65", w, GM65_create_tx(GM65_command.get_sw_version, << >>))

GM65_cmd_get_sw_year(w) ==
    send_and_parse("GM65", w, GM65_create_tx(GM65_command.get_sw_year, << >>))

GM65_cmd_get_settings(w) ==
    send_and_parse("GM65", w, GM65_create_tx(GM65_command.get_settings, << >>))

GM65_cmd_set_settings(w, val) ==
    send_and_parse("GM65", w, GM65_create_tx(GM65_command.set_settings, val))

GM65_cmd_save_settings(w) ==
    send_and_parse("GM65", w, GM65_create_tx(GM65_command.save_settings, << >>))

\* variant: the byte is written back but not saved
GM65_write_back_unsaved(w, settings_int) ==
    Out(GM65_cmd_set_settings(w, << settings_int >>).w, ReturnFlag(TRUE))

\* the tail shared by the settings updates: write the byte back, save, return True, None
GM65_write_back(w, settings_int) ==
    Out(GM65_cmd_save_settings(GM65_cmd_set_settings(w, << settings_int >>).w).w,
        ReturnFlag(TRUE))

\* `settings, extra = self.cmd_get_settings(); settings_int = settings[0]`:
\* None is not subscriptable, b'' has no element 0
GM65_settings_fault(g) ==
    IF ~g.res.ok THEN "TypeError"
    ELSE IF g.res.reply = << >> THEN "IndexError"
    ELSE ""

\* variant: bit 1 is set and bit 0 is left as it was
continuous_mode_bits_unclear(settings_int) == set_bit(settings_int, 1)

\* set_bit(settings_int, 1) then clear_bit(settings_int, 0)
continuous_mode_bits(settings_int) == clear_bit(set_bit(settings_int, 1), 0)

\* set_bit(settings_int, 0) then clear_bit(settings_int, 1)
command_mode_bits(settings_int) == clear_bit(set_bit(settings_int, 0), 1)

\* variant: mode 0 sets bit 3 and clears bit 2
illumination_bits_swapped(settings_int, mode) ==
    IF mode < 0 THEN clear_bit(clear_bit(settings_int, 3), 2)
    ELSE IF mode = 0 THEN clear_bit(set_bit(settings_int, 3), 2)
    ELSE set_bit(set_bit(settings_int, 3), 2)

\* the settings byte with the illumination bits for mode -1 / 0 / 1
illumination_bits(settings_int, mode) ==
    IF mode < 0 THEN clear_bit(clear_bit(settings_int, 3), 2)
    ELSE IF mode = 0 THEN clear_bit(set_bit(settings_int, 2), 3)
    ELSE set_bit(set_bit(settings_int, 3), 2)

\* variant: the aimer bits taken one place higher, at bits 5 and 6
aimer_bits_shifted(settings_int, mode) ==
    IF mode < 0 THEN clear_bit(clear_bit(settings_int, 6), 5)
    ELSE IF mode = 0 THEN clear_bit(set_bit(settings_int, 5), 6)
    ELSE set_bit(set_bit(settings_int, 6), 5)

\* the settings byte with the aimer bits for mode -1 / 0 / 1
aimer_bits(settings_int, mode) ==
    IF mode < 0 THEN clear_bit(clear_bit(settings_int, 5), 4)
    ELSE IF mode = 0 THEN clear_bit(set_bit(settings_int, 4), 5)
    ELSE set_bit(set_bit(settings_int, 5), 4)

\* the settings byte with the beeper bit for mode -1 / 1
beeper_bits(settings_int, mode) ==
    IF mode < 0 THEN clear_bit(settings_int, 6) ELSE set_bit(settings_int, 6)

\* the body of a settings update once cmd_get_settings has returned g
GM65_read_modify_write(g, change, mode) ==
    IF GM65_settings_fault(g) # "" THEN Out(g.w, Raise(GM65_settings_fault(g)))
    ELSE IF change = "beeper" /\ mode = 0 THEN Out(g.w, Raise("NotImplementedError"))
    ELSE GM65_write_back(g.w,
             CASE change = "continuous_mode" -> continuous_mode_bits(g.res.reply[1])
               [] change = "command_mode" -> command_mode_bits(g.res.reply[1])
               [] change = "illumination" -> illumination_bits(g.res.reply[1], mode)
               [] change = "aimer" -> aimer_bits(g.res.reply[1], mode)
               [] change = "beeper" -> beeper_bits(g.res.reply[1], mode))

GM65_cmd_set_continuous_mode(w) ==
    GM65_read_modify_write(GM65_cmd_get_settings(w), "continuous_mode", 0)

GM65_cmd_set_command_mode(w) ==
    GM65_read_modify_write(GM65_cmd_get_settings(w), "command_mode", 0)

GM65_cmd_set_illumination(w, mode) ==
    GM65_read_modify_write(GM65_cmd_get_settings(w), "illumination", mode)

GM65_cmd_set_aimer(w, mode) ==
    GM65_read_modify_write(GM65_cmd_get_settings(w), "aimer", mode)

\* variant: mode 0 is taken as mode 1
GM65_cmd_set_beeper_zero_on(w, mode) ==
    GM65_read_modify_write(GM65_cmd_get_settings(w), "beeper", IF mode = 0 THEN 1 ELSE mode)

\* mode 0 raises NotImplementedError, after cmd_get_settings
GM65_cmd_set_beeper(w, mode) ==
    GM65_read_modify_write(GM65_cmd_get_settings(w), "beeper", mode)

\* command = binascii.unhexlify(value), value given here as the bytes it denotes
GM65_cmd_send_raw(w, raw) == send_and_parse("GM65", w, GM65_create_tx(raw, << >>))

\* round(value * 10) for value given in hundredths of a second: Python rounds to
\* the nearest integer and a tie to the even one
round_tenths(hundredths) ==
    (hundredths \div 10)
        + (IF (hundredths % 10) > 5
               \/ ((hundredths % 10) = 5 /\ (hundredths \div 10) % 2 = 1)
           THEN 1 ELSE 0)

\* (round(value * 10)).to_bytes(1) raises OverflowError outside 0..255
GM65_cmd_set_read_interval(w, hundredths) ==
    IF round_tenths(hundredths) < 0 \/ round_tenths(hundredths) > 255
    THEN Out(w, Raise("OverflowError"))
    ELSE send_and_parse("GM65", w,
             GM65_create_tx(GM65_command.set_read_interval,
                            << round_tenths(hundredths) >>))

\* variant: the byte is sent without set_bit(value[0], 7)
GM65_cmd_set_same_barcode_delay_no_flag(w, hundredths) ==
    IF hundredths > 1270 THEN Out(w, Raise("ValueError"))
    ELSE IF round_tenths(hundredths) < 0 \/ round_tenths(hundredths) > 255
         THEN Out(w, Raise("OverflowError"))
    ELSE send_and_parse("GM65", w,
             GM65_create_tx(GM65_command.set_same_barcode_delay,
                            << round_tenths(hundredths) >>))

\* `if value > 12.7: raise ValueError`, then (round(value * 10)).to_bytes(1), which
\* raises OverflowError outside 0..255, then set_bit(value[0], 7)
GM65_cmd_set_same_barcode_delay(w, hundredths) ==
    IF hundredths > 1270 THEN Out(w, Raise("ValueError"))
    ELSE IF round_tenths(hundredths) < 0 \/ round_tenths(hundredths) > 255
         THEN Out(w, Raise("OverflowError"))
    ELSE send_and_parse("GM65", w,
             GM65_create_tx(GM65_command.set_same_barcode_delay,
                            << set_bit(round_tenths(hundredths), 7) >>))

\* variant: a probe without a reply puts the port back to the rate the change-baud
\* frame was written at
baudrate_confirmed_rolled_back(v) ==
    IF Truthy(v.res) THEN Out(v.w, ReturnFlag(TRUE))
    ELSE Out(set_port_baudrate(v.w, v.w.trace[Len(v.w.trace) - 4].baud),
             ReturnFlag(FALSE))

\* `if reply: return True, None` else `return False, None`
baudrate_confirmed(v) == Out(v.w, ReturnFlag(Truthy(v.res)))

GM65_cmd_set_baudrate(w, rate) ==
    baudrate_confirmed(
        GM65_cmd_get_sw_version(
            set_port_baudrate(
                send_and_parse("GM65", w,
                    GM65_create_tx(GM65_command.set_baudrate, GM65_baudvalues(rate))).w,
                rate)))

\* binascii.hexlify(version) in [b'69'] / [b'87', b'af']; hexlify(None) is a TypeError
GM65_safe_from(v) ==
    IF ~v.res.ok THEN Out(v.w, Raise("TypeError"))
    ELSE IF Hex(v.res.reply) \in { << 6, 9 >> } THEN Out(v.w, ReturnVal("False"))
    ELSE IF Hex(v.res.reply) \in { << 8, 7 >>, << 10, 15 >> }
         THEN Out(v.w, ReturnVal("True"))
    ELSE Out(v.w, ReturnVal("None"))

GM65_get_safe_for_binaryqr(w) == GM65_safe_from(GM65_cmd_get_sw_version(w))

(***************************************************************************)
(* M3YWScanner commands.                                                   *)
(***************************************************************************)
M3YW_cmd_get_sw_version(w) ==
    send_and_parse("M3YW", w, M3YW_create_tx(M3YW_command.get_sw_version, << >>))

M3YW_cmd_set_continuous_mode(w) ==
    send_and_parse("M3YW", w, M3YW_create_tx(M3YW_command.set_continuous_mode, << >>))

M3YW_cmd_set_command_mode(w) ==
    send_and_parse("M3YW", w, M3YW_create_tx(M3YW_command.set_command_mode, << >>))

M3YW_cmd_set_illumination(w, mode) ==
    LET cmd == IF mode < 0 THEN M3YW_command.illumination_off
               ELSE IF mode = 0 THEN M3YW_command.illumination_normal
               ELSE M3YW_command.illumination_on
    IN  send_and_parse("M3YW", w, M3YW_create_tx(cmd, << >>))

M3YW_cmd_set_aimer(w, mode) ==
    LET cmd == IF mode < 0 THEN M3YW_command.aimer_off
               ELSE IF mode = 0 THEN M3YW_command.aimer_normal
               ELSE M3YW_command.aimer_on
    IN  send_and_parse("M3YW", w, M3YW_create_tx(cmd, << >>))

M3YW_cmd_set_beeper(w, mode) ==
    IF mode = 0 THEN Out(w, Raise("NotImplementedError"))
    ELSE send_and_parse("M3YW", w,
             M3YW_create_tx(IF mode < 0 THEN M3YW_command.beeper_off ELSE M3YW_command.beeper_on,
                            << >>))

\* command = value.encode(), value given here as the bytes it denotes
M3YW_cmd_send_raw(w, raw) == send_and_parse("M3YW", w, M3YW_create_tx(raw, << >>))

\* S_CMD_MARR + str(round(value * 1000)).encode(), value in hundredths of a second
M3YW_cmd_set_read_interval(w, hundredths) ==
    send_and_parse("M3YW", w,
        M3YW_create_tx(
            M3YW_command.read_interval
                \o (IF hundredths < 0 THEN << 45 >> \o Str(-(hundredths * 10))
                    ELSE Str(hundredths * 10)),
            << >>))

\* variant: the value command is sent without the two priming commands
M3YW_cmd_set_same_barcode_delay_unprimed(w, hundredths) ==
    send_and_parse("M3YW", w,
        M3YW_create_tx(
            M3YW_command.same_barcode_delay
                \o (IF hundredths < 0 THEN << 45 >> \o Str(-(hundredths * 10))
                    ELSE Str(hundredths * 10)),
            << >>))

\* S_CMD_MA31, S_CMD_MA41, then S_CMD_MARI + str(round(value * 1000)).encode(), with
\* value given in hundredths of a second; the first two replies are dropped
M3YW_cmd_set_same_barcode_delay(w, hundredths) ==
    send_and_parse("M3YW",
        send_and_parse("M3YW",
            send_and_parse("M3YW", w,
                M3YW_create_tx(M3YW_command.same_barcode_prime1, << >>)).w,
            M3YW_create_tx(M3YW_command.same_barcode_prime2, << >>)).w,
        M3YW_create_tx(
            M3YW_command.same_barcode_delay
                \o (IF hundredths < 0 THEN << 45 >> \o Str(-(hundredths * 10))
                    ELSE Str(hundredths * 10)),
            << >>))

\* create_tx is handed the integer rate as value, which this create_tx never reads
M3YW_cmd_set_baudrate(w, rate) ==
    baudrate_confirmed(
        M3YW_cmd_get_sw_version(
            set_port_baudrate(
                send_and_parse("M3YW", w,
                    M3YW_create_tx(M3YW_command.set_baudrate \o Str(rate), rate)).w,
                rate)))

M3YW_get_safe_for_binaryqr(w) == Out(w, ReturnVal("True"))

(***************************************************************************)
(* Method lookup on the scanner object: the method of the class, or the    *)
(* BaseScanner placeholder where the class has none.                       *)
(***************************************************************************)
cmd_get_sw_version(d, w) ==
    IF d = "GM65" THEN GM65_cmd_get_sw_version(w) ELSE M3YW_cmd_get_sw_version(w)

(***************************************************************************)
(* Initial values shared by the specifications.                            *)
(***************************************************************************)
NoDevice ==
    [dialect |-> "none", baud |-> default_baudrate, settings |-> 0, sw_version |-> 0,
     accepts |-> Rates]

\* a link that delivers every answer intact and nothing otherwise
QuietEnv == [junk |-> << >>, fault_at |-> 0, fault |-> "silent"]

Envs ==
    { [junk |-> j, fault_at |-> 0, fault |-> "silent"] : j \in Junk }
        \cup [junk : Junk, fault_at : 1..MaxFaultAt, fault : FaultKinds]

\* the port opened at the default rate, nothing sent yet, no command running
DriverStart ==
    /\ baudrate = default_baudrate
    /\ trace = << >>
    /\ op = [name |-> "none", arg |-> << >>, start |-> 0]
    /\ calls = << >>
    /\ scanner_idx = 0
    /\ baud_idx = 0
    /\ found = 0

\* the checksum variables before any checksum is asked for
ChecksumUnused ==
    /\ cs_data = << >>
    /\ cs_crc = 0
    /\ byte_idx = 0
    /\ bit_i = 7
    /\ data_with_crc = << >>
    /\ verified = FALSE

\* nothing on its way to the port, no capture running
WaitUnused ==
    /\ line = << >>
    /\ elapsed = 0

\* the codec variables while the driver is exercised
CodecUnused ==
    /\ ChecksumUnused
    /\ WaitUnused
    /\ revision = "serial-reader"
    /\ command = << >>
    /\ value = << >>
    /\ tx_data = << >>
    /\ rx_data = << >>
    /\ parsed = Failure
    /\ origin = "device"

(***************************************************************************)
(* Operations of the driver that run to completion in one step.            *)
(***************************************************************************)
Idle == pc = "idle" /\ calls_left > 0

\* the record of a finished operation: what it handed back, and the events
\* first..last of the trace that it caused
Completed(name, arg, result, first, last) ==
    [name |-> name, arg |-> arg, result |-> result, first |-> first, last |-> last]

\* the operation name(arg) ran and handed back out.res, leaving the world out.w
Finish(name, arg, out) ==
    /\ dev' = out.w.dev
    /\ trace' = out.w.trace
    /\ baudrate' = out.w.baudrate
    /\ op' = [name |-> name, arg |-> arg, start |-> Len(trace) + 1]
    /\ calls' = Append(calls, Completed(name, arg, out.res, Len(trace) + 1, Len(out.w.trace)))
    /\ calls_left' = calls_left - 1
    /\ UNCHANGED << scanner, pc, env, scanner_idx, baud_idx, found, codec_vars >>

\* -1 always off / muted, 0 normal, 1 always on
Modes == { -1, 0, 1 }

\* bytes handed to cmd_set_settings
SettingsArgs == { << 0 >>, << 140 >> }

\* opcodes handed to cmd_send_raw
RawOpcodes(d) ==
    IF d = "GM65" THEN { GM65_command.get_sw_version, << 65 >> }
    ELSE { M3YW_command.get_sw_version, << 65 >> }

Call_get_hw_version ==
    /\ Idle
    /\ Finish("get_hw_version", << >>,
               IF scanner = "GM65" THEN GM65_cmd_get_hw_version(World) ELSE not_implemented(World))

Call_get_sw_version ==
    /\ Idle
    /\ Finish("get_sw_version", << >>,
               cmd_get_sw_version(scanner, World))

Call_get_sw_year ==
    /\ Idle
    /\ Finish("get_sw_year", << >>,
               IF scanner = "GM65" THEN GM65_cmd_get_sw_year(World) ELSE not_implemented(World))

Call_get_settings ==
    /\ Idle
    /\ Finish("get_settings", << >>,
               IF scanner = "GM65" THEN GM65_cmd_get_settings(World) ELSE not_implemented(World))

Call_set_settings ==
    /\ Idle
    /\ \E v \in SettingsArgs :
           Finish("set_settings", v,
               IF scanner = "GM65" THEN GM65_cmd_set_settings(World, v) ELSE not_implemented(World))

Call_save_settings ==
    /\ Idle
    /\ Finish("save_settings", << >>,
               IF scanner = "GM65" THEN GM65_cmd_save_settings(World) ELSE not_implemented(World))

Call_set_continuous_mode ==
    /\ Idle
    /\ Finish("set_continuous_mode", << >>,
               IF scanner = "GM65" THEN GM65_cmd_set_continuous_mode(World)
               ELSE M3YW_cmd_set_continuous_mode(World))

Call_set_command_mode ==
    /\ Idle
    /\ Finish("set_command_mode", << >>,
               IF scanner = "GM65" THEN GM65_cmd_set_command_mode(World)
               ELSE M3YW_cmd_set_command_mode(World))

Call_set_illumination ==
    /\ Idle
    /\ \E m \in Modes :
           Finish("set_illumination", << m >>,
               IF scanner = "GM65" THEN GM65_cmd_set_illumination(World, m)
               ELSE M3YW_cmd_set_illumination(World, m))

Call_set_aimer ==
    /\ Idle
    /\ \E m \in Modes :
           Finish("set_aimer", << m >>,
               IF scanner = "GM65" THEN GM65_cmd_set_aimer(World, m)
               ELSE M3YW_cmd_set_aimer(World, m))

Call_set_beeper ==
    /\ Idle
    /\ \E m \in Modes :
           Finish("set_beeper", << m >>,
               IF scanner = "GM65" THEN GM65_cmd_set_beeper(World, m)
               ELSE M3YW_cmd_set_beeper(World, m))

Call_send_raw ==
    /\ Idle
    /\ \E raw \in RawOpcodes(scanner) :
           Finish("send_raw", raw,
               IF scanner = "GM65" THEN GM65_cmd_send_raw(World, raw)
               ELSE M3YW_cmd_send_raw(World, raw))

Call_set_baudrate ==
    /\ Idle
    /\ \E r \in Rates :
           Finish("set_baudrate", << r >>,
               IF scanner = "GM65" THEN GM65_cmd_set_baudrate(World, r)
               ELSE M3YW_cmd_set_baudrate(World, r))

Call_get_safe_for_binaryqr ==
    /\ Idle
    /\ Finish("get_safe_for_binaryqr", << >>,
               IF scanner = "GM65" THEN GM65_get_safe_for_binaryqr(World)
               ELSE M3YW_get_safe_for_binaryqr(World))

\* --set-same-barcode-delay values, in hundredths of a second
DelayValues ==
    { -100, -6, -5, 0, 4, 5, 10, 15, 20, 40, 80, 100, 160, 320, 640, 1260, 1265, 1266,
      1270, 1271, 1275, 1300, 2550, 2560 }

Call_set_same_barcode_delay ==
    /\ Idle
    /\ \E v \in DelayValues :
           Finish("set_same_barcode_delay", << v >>,
               IF scanner = "GM65" THEN GM65_cmd_set_same_barcode_delay(World, v)
               ELSE M3YW_cmd_set_same_barcode_delay(World, v))

\* --set-read-interval values, in hundredths of a second: every whole number of
\* tenths from 0 to 25.5 s, and values off the grid, below and above
IntervalValues ==
    { 10 * n : n \in 0..255 }
        \cup { -100, -6, -5, -4, 4, 5, 15, 25, 1266, 2554, 2555, 2560, 3000 }

Call_set_read_interval ==
    /\ Idle
    /\ \E v \in IntervalValues :
           Finish("set_read_interval", << v >>,
               IF scanner = "GM65" THEN GM65_cmd_set_read_interval(World, v)
               ELSE M3YW_cmd_set_read_interval(World, v))

(***************************************************************************)
(* find_baudrate and detect_scanner, one probe per step.                   *)
(***************************************************************************)
\* scanner.find_baudrate() called on its own
Call_find_baudrate ==
    /\ Idle
    /\ op' = [name |-> "find_baudrate", arg |-> << >>, start |-> Len(trace) + 1]
    /\ baud_idx' = 1
    /\ pc' = "find_baudrate"
    /\ calls_left' = calls_left - 1
    /\ UNCHANGED << scanner, baudrate, trace, dev, env, calls, scanner_idx, found, codec_vars >>

\* the end of one pass: `if reply: return baudrate`, else the next rate
find_baudrate_checked(rate, out) ==
    /\ dev' = out.w.dev
    /\ trace' = out.w.trace
    /\ baudrate' = out.w.baudrate
    /\ IF Truthy(out.res)
       THEN /\ found' = rate
            /\ pc' = "find_baudrate_return"
            /\ UNCHANGED baud_idx
       ELSE /\ baud_idx' = baud_idx + 1
            /\ UNCHANGED << found, pc >>

\* one pass of `for baudrate in common_baud_rates`: set the rate, ask for the
\* software version, return the rate if the reply is true
find_baudrate_probe ==
    /\ pc = "find_baudrate"
    /\ baud_idx <= Len(common_baud_rates)
    /\ find_baudrate_checked(
           common_baud_rates[baud_idx],
           cmd_get_sw_version(scanner,
               set_port_baudrate(World, common_baud_rates[baud_idx])))
    /\ UNCHANGED << scanner, env, op, calls, calls_left, scanner_idx, codec_vars >>

\* the loop ran out: return None
find_baudrate_none ==
    /\ pc = "find_baudrate"
    /\ baud_idx > Len(common_baud_rates)
    /\ found' = 0
    /\ pc' = "find_baudrate_return"
    /\ UNCHANGED << scanner, baudrate, trace, dev, env, op, calls, calls_left,
                    scanner_idx, baud_idx, codec_vars >>

\* find_baudrate hands its value to whoever called it
find_baudrate_return ==
    /\ pc = "find_baudrate_return"
    /\ IF op.name = "detect_scanner"
       THEN /\ pc' = "detect_found"
            /\ UNCHANGED calls
       ELSE /\ pc' = "idle"
            /\ calls' = Append(calls,
                   Completed(op.name, op.arg,
                             IF found = 0 THEN ReturnVal("None") ELSE ReturnNum(found),
                             op.start, Len(trace)))
    /\ UNCHANGED << scanner, baudrate, trace, dev, env, op, calls_left,
                    scanner_idx, baud_idx, found, codec_vars >>

\* detect_scanner(serial_port)
Call_detect_scanner ==
    /\ Idle
    /\ op' = [name |-> "detect_scanner", arg |-> << >>, start |-> Len(trace) + 1]
    /\ scanner_idx' = 1
    /\ pc' = "detect_try"
    /\ calls_left' = calls_left - 1
    /\ UNCHANGED << scanner, baudrate, trace, dev, env, calls, baud_idx, found, codec_vars >>

\* `for scanner in [GM65Scanner, M3YWScanner]`: construct it, call find_baudrate
detect_try ==
    /\ pc = "detect_try"
    /\ scanner_idx <= Len(Dialects)
    /\ scanner' = Dialects[scanner_idx]
    /\ baud_idx' = 1
    /\ pc' = "find_baudrate"
    /\ UNCHANGED << baudrate, trace, dev, env, op, calls, calls_left, scanner_idx,
                    found, codec_vars >>

\* `if foundbaud: return scanner`, else the next class
detect_found ==
    /\ pc = "detect_found"
    /\ IF found # 0
       THEN /\ pc' = "idle"
            /\ calls' = Append(calls, Completed(op.name, op.arg, ReturnVal(scanner),
                                                 op.start, Len(trace)))
            /\ UNCHANGED scanner_idx
       ELSE /\ pc' = "detect_try"
            /\ scanner_idx' = scanner_idx + 1
            /\ UNCHANGED calls
    /\ UNCHANGED << scanner, baudrate, trace, dev, env, op, calls_left, baud_idx,
                    found, codec_vars >>

\* raise RuntimeError("No supported scanner found")
detect_raise ==
    /\ pc = "detect_try"
    /\ scanner_idx > Len(Dialects)
    /\ pc' = "idle"
    /\ calls' = Append(calls, Completed(op.name, op.arg, Raise("RuntimeError"),
                                         op.start, Len(trace)))
    /\ UNCHANGED << scanner, baudrate, trace, dev, env, op, calls_left, scanner_idx,
                    baud_idx, found, codec_vars >>

(***************************************************************************)
(* test_baudrates, one attempt per step.                                   *)
(***************************************************************************)
\* common_baud_rates + list(reversed(common_baud_rates))
sweep_rates ==
    common_baud_rates
        \o [k \in 1..Len(common_baud_rates) |->
               common_baud_rates[Len(common_baud_rates) + 1 - k]]

\* scanner.test_baudrates()
Call_test_baudrates ==
    /\ Idle
    /\ op' = [name |-> "test_baudrates", arg |-> << >>, start |-> Len(trace) + 1]
    /\ baud_idx' = 1
    /\ pc' = "test_baudrates"
    /\ calls_left' = calls_left - 1
    /\ UNCHANGED << scanner, baudrate, trace, dev, env, calls, scanner_idx, found, codec_vars >>

\* cmd_set_baudrate(rate) returned out: `works` is its flag, printed as Success or
\* Failed next to the rate
test_baudrates_printed(rate, out) ==
    /\ dev' = out.w.dev
    /\ trace' = out.w.trace
    /\ baudrate' = out.w.baudrate
    /\ calls' = Append(calls, Completed("set_baudrate", << rate >>, out.res,
                                        Len(trace) + 1, Len(out.w.trace)))

\* one pass of the loop: works, _ = self.cmd_set_baudrate(int(baudrate)), and the print
test_baudrates_attempt ==
    /\ pc = "test_baudrates"
    /\ baud_idx <= Len(sweep_rates)
    /\ test_baudrates_printed(
           sweep_rates[baud_idx],
           IF scanner = "GM65" THEN GM65_cmd_set_baudrate(World, sweep_rates[baud_idx])
           ELSE M3YW_cmd_set_baudrate(World, sweep_rates[baud_idx]))
    /\ baud_idx' = baud_idx + 1
    /\ UNCHANGED << scanner, pc, env, op, calls_left, scanner_idx, found, codec_vars >>

\* the loop ran out: test_baudrates returns None
test_baudrates_return ==
    /\ pc = "test_baudrates"
    /\ baud_idx > Len(sweep_rates)
    /\ pc' = "idle"
    /\ calls' = Append(calls, Completed(op.name, op.arg, ReturnVal("None"),
                                        op.start, Len(trace)))
    /\ UNCHANGED << scanner, baudrate, trace, dev, env, op, calls_left, scanner_idx,
                    baud_idx, found, codec_vars >>

(***************************************************************************)
(* Specifications of the driver.                                           *)
(***************************************************************************)
\* one command against a device of either dialect, or none, over a link that may
\* damage one reply
InitDriver ==
    /\ pc = "idle"
    /\ CodecUnused
    /\ DriverStart
    /\ scanner \in { "GM65", "M3YW" }
    /\ dev \in { NoDevice }
           \cup [dialect : { "GM65", "M3YW" }, baud : { default_baudrate },
                 settings : { 85, 170 }, sw_version : { 105, 135, 18 },
                 accepts : { Rates }]
    /\ env \in Envs
    /\ calls_left = DriverCalls

NextDriver ==
    \/ Call_get_hw_version
    \/ Call_get_sw_version
    \/ Call_get_sw_year
    \/ Call_get_settings
    \/ Call_set_settings
    \/ Call_save_settings
    \/ Call_set_continuous_mode
    \/ Call_set_command_mode
    \/ Call_set_illumination
    \/ Call_set_aimer
    \/ Call_set_beeper
    \/ Call_send_raw
    \/ Call_set_baudrate
    \/ Call_get_safe_for_binaryqr
    \/ Call_set_same_barcode_delay

SpecDriver == InitDriver /\ [][NextDriver]_vars

\* illumination updates and read-backs on a GM65 module that stores the settings byte, over an intact link
InitSettings ==
    /\ pc = "idle"
    /\ CodecUnused
    /\ DriverStart
    /\ scanner = "GM65"
    /\ dev \in [dialect : { "GM65" }, baud : { default_baudrate },
                settings : Byte, sw_version : { 135 }, accepts : { Rates }]
    /\ env = QuietEnv
    /\ calls_left = MaxCalls

NextSettings ==
    \/ Call_get_settings
    \/ Call_set_illumination

SpecSettings == InitSettings /\ [][NextSettings]_vars

\* the version and settings commands of either class, against a device of either
\* dialect, or none, over a link that may damage one reply
InitSurface ==
    /\ pc = "idle"
    /\ CodecUnused
    /\ DriverStart
    /\ scanner \in { "GM65", "M3YW" }
    /\ dev \in { NoDevice }
           \cup [dialect : { "GM65", "M3YW" }, baud : { default_baudrate },
                 settings : { 85 }, sw_version : { 135 }, accepts : { Rates }]
    /\ env \in Envs
    /\ calls_left = DriverCalls

NextSurface ==
    \/ Call_get_hw_version
    \/ Call_get_sw_version
    \/ Call_get_sw_year
    \/ Call_get_settings
    \/ Call_set_settings
    \/ Call_save_settings

SpecSurface == InitSurface /\ [][NextSurface]_vars

\* the main script runs one command of its if/elif chain per run
commands_per_run == 1

\* one timing command of either class, against a device of either dialect, or none,
\* over a link that may damage one reply
InitTiming ==
    /\ pc = "idle"
    /\ CodecUnused
    /\ DriverStart
    /\ scanner \in { "GM65", "M3YW" }
    /\ dev \in { NoDevice }
           \cup [dialect : { "GM65", "M3YW" }, baud : { default_baudrate },
                 settings : { 85 }, sw_version : { 135 }, accepts : { Rates }]
    /\ env \in { QuietEnv }
           \cup [junk : { << >> }, fault_at : 1..MaxFaultAt, fault : FaultKinds]
    /\ calls_left = commands_per_run

NextTiming ==
    \/ Call_set_read_interval
    \/ Call_set_same_barcode_delay

SpecTiming == InitTiming /\ [][NextTiming]_vars

\* the settings updates of a GM65Scanner, one after the other, on a GM65 module that
\* stores the settings byte, over a link that may lose one reply
InitRmw ==
    /\ pc = "idle"
    /\ CodecUnused
    /\ DriverStart
    /\ scanner = "GM65"
    /\ dev \in [dialect : { "GM65" }, baud : { default_baudrate },
                settings : { 0, 3, 85 }, sw_version : { 135 }, accepts : { Rates }]
    /\ env \in { QuietEnv }
           \cup [junk : { << >> }, fault_at : 1..MaxFaultAt, fault : { "silent" }]
    /\ calls_left = MaxCalls

NextRmw ==
    \/ Call_set_continuous_mode
    \/ Call_set_command_mode
    \/ Call_set_illumination
    \/ Call_set_aimer
    \/ Call_set_beeper

SpecRmw == InitRmw /\ [][NextRmw]_vars

\* one settings update of a GM65Scanner on a GM65 module that holds any settings byte,
\* over an intact link
InitBits ==
    /\ pc = "idle"
    /\ CodecUnused
    /\ DriverStart
    /\ scanner = "GM65"
    /\ dev \in [dialect : { "GM65" }, baud : { default_baudrate },
                settings : Byte, sw_version : { 135 }, accepts : { Rates }]
    /\ env = QuietEnv
    /\ calls_left = commands_per_run

SpecBits == InitBits /\ [][NextRmw]_vars

\* set_beeper and get_settings of either class, against a device of either dialect
\* that stores a settings byte, or none, over a link that may damage one reply
InitBeeper ==
    /\ pc = "idle"
    /\ CodecUnused
    /\ DriverStart
    /\ scanner \in { "GM65", "M3YW" }
    /\ dev \in { NoDevice }
           \cup [dialect : { "GM65", "M3YW" }, baud : { default_baudrate },
                 settings : { 21, 85 }, sw_version : { 135 }, accepts : { Rates }]
    /\ env \in Envs
    /\ calls_left = DriverCalls

NextBeeper ==
    \/ Call_get_settings
    \/ Call_set_beeper

SpecBeeper == InitBeeper /\ [][NextBeeper]_vars

\* test_baudrates against a device of the scanner's dialect that starts at the
\* port's rate and accepts a change to some of the common rates
InitSweep ==
    /\ pc = "idle"
    /\ CodecUnused
    /\ DriverStart
    /\ scanner \in { "GM65", "M3YW" }
    /\ dev \in [dialect : { scanner }, baud : { default_baudrate },
                settings : { 0 }, sw_version : { 135 }, accepts : SUBSET Rates]
    /\ env = QuietEnv
    /\ calls_left = DriverCalls

NextSweep ==
    \/ Call_test_baudrates
    \/ test_baudrates_attempt
    \/ test_baudrates_return

SpecSweep == InitSweep /\ [][NextSweep]_vars

\* the sweep and the detection against a device of either dialect at any common rate,
\* or no device
InitDetect ==
    /\ pc = "idle"
    /\ CodecUnused
    /\ DriverStart
    /\ scanner \in { "GM65", "M3YW" }
    /\ dev \in { NoDevice }
           \cup [dialect : { "GM65", "M3YW" }, baud : Rates,
                 settings : { 0 }, sw_version : { 135 }, accepts : { Rates }]
    /\ env \in Envs
    /\ calls_left = DriverCalls

NextDetect ==
    \/ Call_find_baudrate
    \/ find_baudrate_probe
    \/ find_baudrate_none
    \/ find_baudrate_return
    \/ Call_detect_scanner
    \/ detect_try
    \/ detect_found
    \/ detect_raise

SpecDetect == InitDetect /\ [][NextDetect]_vars

\* a session of commands run one after the other on the same port: a single-frame
\* command, a three-frame settings update, a baud-rate change, the rate search and
\* the detection, against a device of either dialect, or none, over a link that may
\* lose one reply
InitSession ==
    /\ pc = "idle"
    /\ CodecUnused
    /\ DriverStart
    /\ scanner \in { "GM65", "M3YW" }
    /\ dev \in { NoDevice }
           \cup [dialect : { "GM65", "M3YW" }, baud : { default_baudrate },
                 settings : { 85 }, sw_version : { 135 }, accepts : { Rates }]
    /\ env \in { QuietEnv }
           \cup [junk : { << >> }, fault_at : 1..MaxFaultAt, fault : { "silent" }]
    /\ calls_left = MaxCalls

NextSession ==
    \/ Call_get_sw_version
    \/ Call_set_illumination
    \/ Call_set_baudrate
    \/ Call_find_baudrate
    \/ find_baudrate_probe
    \/ find_baudrate_none
    \/ find_baudrate_return
    \/ Call_detect_scanner
    \/ detect_try
    \/ detect_found
    \/ detect_raise

SpecSession == InitSession /\ [][NextSession]_vars

(***************************************************************************)
(* Inputs of the frame codec.                                              *)
(***************************************************************************)
\* all byte sequences over S of length at most n
BytesUpTo(S, n) == UNION { [1..k -> S] : k \in 0..n }

\* argument bytes handed to create_tx
Values == { << >>, << 0 >>, << 1 >>, << 140 >>, << 57, 1 >> }

\* opcodes handed to create_tx: the command table, and two raw opcodes
Opcodes(d) == commands(d) \cup { << >>, << 65 >> }

Payloads == BytesUpTo({ 1, 135 }, MaxPayload)

\* leading tag of a generated receive buffer
Tags(d) ==
    IF d = "GM65" THEN { << 2, 0, 0 >>, << 2, 0, 1 >>, << 126, 0, 0 >> }
    ELSE { << 90, 1 >>, << 90, 0 >>, << 2, 0 >> }

\* the length field of a receive header
LenField(d, n) == IF d = "GM65" THEN << n % 256 >> ELSE to_bytes2(n)

checksum(d, bytes) ==
    IF d = "GM65" THEN compute_crc16_xmodem(bytes) ELSE compute_bcc(bytes)

\* the checksum bytes of a generated buffer, computed over one of three spans
Cks(d, kind, tag, lenfield, p) ==
    IF kind = "from_byte_1" THEN checksum(d, SliceFrom(tag, 1) \o lenfield \o p)
    ELSE IF kind = "from_length" THEN checksum(d, lenfield \o p)
    ELSE Corrupt(checksum(d, SliceFrom(tag, 1) \o lenfield \o p))

\* whole buffers: tag, declared length, payload bytes present, checksum, trailer, rest
FullBuffers(d) ==
    { tag \o LenField(d, n) \o p \o Cks(d, kind, tag, LenField(d, n), p) \o etx \o rest :
        tag \in Tags(d), n \in 0..MaxDeclared, p \in Payloads,
        kind \in { "from_byte_1", "from_length", "wrong" },
        etx \in IF d = "GM65" THEN { << >> } ELSE { M3YW_etx_bytes, << >> },
        rest \in { << >>, << 9 >> } }

\* every buffer a bounded read can hand to parse_rx: a whole buffer or a prefix of one
Buffers(d) == UNION { { Slice(f, 0, k) : k \in 0..Len(f) } : f \in FullBuffers(d) }

(***************************************************************************)
(* The frame codec as a state machine: encode a command, decode a buffer,  *)
(* or feed an encoded frame back to the decoder of the same class.         *)
(***************************************************************************)
InitCodec ==
    /\ scanner \in { "GM65", "M3YW" }
    /\ tx_data = << >>
    /\ parsed = Failure
    /\ origin = "device"
    /\ \/ /\ pc = "encode"
          /\ revision \in { "serial-reader", "oo-refactor" }
          /\ command \in Opcodes(scanner)
          /\ value \in Values
          /\ rx_data = << >>
       \/ /\ pc = "decode"
          /\ revision = "serial-reader"
          /\ command = << >>
          /\ value = << >>
          /\ rx_data \in Buffers(scanner)
    /\ ChecksumUnused
    /\ WaitUnused
    /\ DriverStart
    /\ dev = NoDevice
    /\ env = QuietEnv
    /\ calls_left = 0

\* create_tx of the scanner class, in the revision under test
Encode ==
    /\ pc = "encode"
    /\ tx_data' = IF scanner = "M3YW" /\ revision = "oo-refactor"
                  THEN M3YW_create_tx_oo(command, value)
                  ELSE create_tx(scanner, command, value)
    /\ pc' = "encoded"
    /\ UNCHANGED << scanner, revision, command, value, rx_data, parsed, origin >>
    /\ UNCHANGED << checksum_vars, wait_vars, driver_vars >>

\* the frame just encoded is handed to the decoder of the same class
Loopback ==
    /\ pc = "encoded"
    /\ rx_data' = tx_data
    /\ origin' = "loopback"
    /\ pc' = "decode"
    /\ UNCHANGED << scanner, revision, command, value, tx_data, parsed >>
    /\ UNCHANGED << checksum_vars, wait_vars, driver_vars >>

\* parse_rx of the scanner class
Decode ==
    /\ pc = "decode"
    /\ parsed' = parse_rx(scanner, rx_data)
    /\ pc' = "decoded"
    /\ UNCHANGED << scanner, revision, command, value, tx_data, rx_data, origin >>
    /\ UNCHANGED << checksum_vars, wait_vars, driver_vars >>

NextCodec == Encode \/ Loopback \/ Decode

SpecCodec == InitCodec /\ [][NextCodec]_vars

(***************************************************************************)
(* Decoding a stream: parse_rx applied to a buffer that holds two reply    *)
(* frames, then to the leftover it returned, until nothing is left.        *)
(***************************************************************************)
\* a reply whose BCC covers the region create_tx covers: the length field and the
\* payload
M3YW_wire_frame(payload) ==
    << 90, 1 >> \o to_bytes2(Len(payload)) \o payload
        \o compute_bcc(to_bytes2(Len(payload)) \o payload) \o M3YW_etx_bytes

\* the reply frames of a dialect that carry a payload: for M3Y-W with the BCC over
\* the region parse_rx verifies, and with the BCC over the region create_tx covers
StreamFrames(d) ==
    IF d = "GM65" THEN { GM65_reply_frame(p) : p \in Payloads }
    ELSE { M3YW_reply_frame(p) : p \in Payloads }
             \cup { M3YW_wire_frame(p) : p \in Payloads }

\* parse_rx is about to be handed a buffer in which a second frame follows the first
InitStream ==
    /\ scanner \in { "GM65", "M3YW" }
    /\ pc = "stream"
    /\ rx_data \in { F1 \o F2 : F1 \in StreamFrames(scanner), F2 \in StreamFrames(scanner) }
    /\ revision = "serial-reader"
    /\ command = << >>
    /\ value = << >>
    /\ tx_data = << >>
    /\ parsed = Failure
    /\ origin = "device"
    /\ ChecksumUnused
    /\ WaitUnused
    /\ DriverStart
    /\ dev = NoDevice
    /\ env = QuietEnv
    /\ calls_left = 0

\* parse_rx(rx_data) of the scanner class; when it returns a leftover, the leftover
\* is the next buffer
stream_decode ==
    /\ pc = "stream"
    /\ parsed' = parse_rx(scanner, rx_data)
    /\ calls' = Append(calls, Completed("parse_rx", rx_data,
                                        ReturnPair(parse_rx(scanner, rx_data)), 0, 0))
    /\ IF parse_rx(scanner, rx_data).ok /\ parse_rx(scanner, rx_data).extra # << >>
       THEN /\ rx_data' = parse_rx(scanner, rx_data).extra
            /\ UNCHANGED pc
       ELSE /\ pc' = "drained"
            /\ UNCHANGED rx_data
    /\ UNCHANGED << scanner, revision, command, value, tx_data, origin, checksum_vars,
                    wait_vars, baudrate, trace, dev, env, op, calls_left,
                    scanner_idx, baud_idx, found >>

NextStream ==
    \/ stream_decode

SpecStream == InitStream /\ [][NextStream]_vars

(***************************************************************************)
(* The checksum library as a state machine: compute_checksum of a scanner  *)
(* class over some bytes (the CRC loop one statement per step), the result *)
(* appended to the bytes, one bit of the bytes flipped or none, and        *)
(* check_checksum of the same class on what arrives.                       *)
(***************************************************************************)
\* bytes the sequences are built from
DataBytes == { 0, 1, 49, 128, 165, 255 }

\* b"123456789"
TestVector == << 49, 50, 51, 52, 53, 54, 55, 56, 57 >>

\* check_checksum of the scanner class
check_checksum(d, bytes) ==
    IF d = "GM65" THEN check_crc16_xmodem(bytes) ELSE check_bcc(bytes)

\* compute_checksum(data) is entered: `crc = 0`, the first byte, bit 7
InitChecksum ==
    /\ scanner \in { "GM65", "M3YW" }
    /\ cs_data \in BytesUpTo(DataBytes, MaxData) \cup { TestVector }
    /\ cs_crc = 0
    /\ byte_idx = 1
    /\ bit_i = 7
    /\ pc = IF scanner = "M3YW" THEN "compute_bcc"
            ELSE IF cs_data = << >> THEN "crc_mask" ELSE "crc_double"
    /\ data_with_crc = << >>
    /\ verified = FALSE
    /\ WaitUnused
    /\ revision = "serial-reader"
    /\ command = << >>
    /\ value = << >>
    /\ tx_data = << >>
    /\ rx_data = << >>
    /\ parsed = Failure
    /\ origin = "device"
    /\ DriverStart
    /\ dev = NoDevice
    /\ env = QuietEnv
    /\ calls_left = 0

\* crc *= 2
crc_double ==
    /\ pc = "crc_double"
    /\ cs_crc' = cs_crc * 2
    /\ pc' = "crc_reduce"
    /\ UNCHANGED << scanner, cs_data, byte_idx, bit_i, data_with_crc, verified >>
    /\ UNCHANGED << revision, command, value, tx_data, rx_data, parsed, origin, wait_vars,
                    driver_vars >>

\* if (crc & 0x10000) != 0: crc ^= 0x11021
crc_reduce_step ==
    /\ pc = "crc_reduce"
    /\ cs_crc' = crc_reduce(cs_crc)
    /\ pc' = "crc_data_bit"
    /\ UNCHANGED << scanner, cs_data, byte_idx, bit_i, data_with_crc, verified >>
    /\ UNCHANGED << revision, command, value, tx_data, rx_data, parsed, origin, wait_vars,
                    driver_vars >>

\* if (byte & (1 << i)) != 0: crc ^= 0x1021; then the next i, the next byte, or
\* the end of both loops
crc_data_bit ==
    /\ pc = "crc_data_bit"
    /\ cs_crc' = IF check_bit(cs_data[byte_idx], bit_i) # 0 THEN Xor(cs_crc, 4129)
                 ELSE cs_crc
    /\ IF bit_i > 0
       THEN bit_i' = bit_i - 1 /\ pc' = "crc_double" /\ UNCHANGED byte_idx
       ELSE IF byte_idx < Len(cs_data)
            THEN bit_i' = 7 /\ byte_idx' = byte_idx + 1 /\ pc' = "crc_double"
            ELSE pc' = "crc_mask" /\ UNCHANGED << byte_idx, bit_i >>
    /\ UNCHANGED << scanner, cs_data, data_with_crc, verified >>
    /\ UNCHANGED << revision, command, value, tx_data, rx_data, parsed, origin, wait_vars,
                    driver_vars >>

\* crc &= 0xFFFF; return crc.to_bytes(2, byteorder='big'); the caller appends it
crc_return ==
    /\ pc = "crc_mask"
    /\ data_with_crc' = cs_data \o to_bytes2(cs_crc % 65536)
    /\ pc' = "computed"
    /\ UNCHANGED << scanner, cs_data, cs_crc, byte_idx, bit_i, verified >>
    /\ UNCHANGED << revision, command, value, tx_data, rx_data, parsed, origin, wait_vars,
                    driver_vars >>

\* compute_bcc(data); the caller appends it
bcc_return ==
    /\ pc = "compute_bcc"
    /\ data_with_crc' = cs_data \o compute_bcc(cs_data)
    /\ pc' = "computed"
    /\ UNCHANGED << scanner, cs_data, cs_crc, byte_idx, bit_i, verified >>
    /\ UNCHANGED << revision, command, value, tx_data, rx_data, parsed, origin, wait_vars,
                    driver_vars >>

\* one bit of one byte of the protected bytes is flipped on the way
flip_bit ==
    /\ pc = "computed"
    /\ \E k \in 1..Len(cs_data), b \in 0..7 :
           data_with_crc' = [data_with_crc EXCEPT ![k] = toggle_bit(@, b)]
    /\ pc' = "damaged"
    /\ UNCHANGED << scanner, cs_data, cs_crc, byte_idx, bit_i, verified >>
    /\ UNCHANGED << revision, command, value, tx_data, rx_data, parsed, origin, wait_vars,
                    driver_vars >>

\* check_checksum(data_with_crc) of the scanner class
check_step ==
    /\ pc \in { "computed", "damaged" }
    /\ verified' = check_checksum(scanner, data_with_crc)
    /\ pc' = IF pc = "computed" THEN "checked" ELSE "checked_damaged"
    /\ UNCHANGED << scanner, cs_data, cs_crc, byte_idx, bit_i, data_with_crc >>
    /\ UNCHANGED << revision, command, value, tx_data, rx_data, parsed, origin, wait_vars,
                    driver_vars >>

NextChecksum ==
    \/ crc_double
    \/ crc_reduce_step
    \/ crc_data_bit
    \/ crc_return
    \/ bcc_return
    \/ flip_bit
    \/ check_step

SpecChecksum == InitChecksum /\ [][NextChecksum]_vars

(***************************************************************************)
(* Waiting for data: send_and_parse one statement per step, and the        *)
(* capture loop of the main script.  The transport hands a reply over in   *)
(* chunks; one serial_port.read(1024) on the port opened with timeout=1    *)
(* returns the chunks that came in while it waited, possibly none.         *)
(***************************************************************************)
\* the most chunks the transport cuts one burst of bytes into
MaxChunks == 3

\* scan_duration = 10
scan_duration == 10

\* what the scanner sends on its own in continuous mode: one scanned code
ScanData == << 49, 50, 13 >>

RECURSIVE Chunkings(_, _)
\* the ways to cut bytes into at most n non-empty chunks
Chunkings(bytes, n) ==
    IF bytes = << >> THEN { << >> }
    ELSE IF n <= 1 THEN { << bytes >> }
    ELSE UNION { { << SubSeq(bytes, 1, k) >> \o rest :
                     rest \in Chunkings(SubSeq(bytes, k + 1, Len(bytes)), n - 1) } :
                 k \in 1..Len(bytes) }

RECURSIVE Flatten(_)
\* the bytes of some chunks, in order
Flatten(chunks) ==
    IF chunks = << >> THEN << >> ELSE Head(chunks) \o Flatten(Tail(chunks))

\* serial_port.read(1024) that returns the first k chunks still on their way (no
\* chunk sequence of the model reaches 1024 bytes)
port_read(k) == Slice(Flatten(SubSeq(line, 1, k)), 0, 1024)

\* a command is about to call send_and_parse with its frame, or the capture loop of
\* the main script is about to start with `rx_data = b''`
InitWait ==
    /\ scanner \in { "GM65", "M3YW" }
    /\ ChecksumUnused
    /\ revision = "serial-reader"
    /\ command = << >>
    /\ value = << >>
    /\ tx_data = << >>
    /\ rx_data = << >>
    /\ parsed = Failure
    /\ origin = "device"
    /\ elapsed = 0
    /\ DriverStart
    /\ dev \in [dialect : { scanner }, baud : { default_baudrate },
                settings : { 85 }, sw_version : { 135 }, accepts : { Rates }]
    /\ env = QuietEnv
    /\ \/ /\ pc = "send_and_parse"
          /\ line = << >>
          /\ calls_left = DriverCalls
       \/ /\ pc = "capture"
          /\ line \in Chunkings(ScanData, MaxChunks)
          /\ calls_left = 0

\* send_and_parse(tx_data) called by cmd_get_sw_version: self.serial_port.write(tx_data);
\* the device's answer sets out for the port, in chunks
send_and_parse_write ==
    /\ pc = "send_and_parse"
    /\ calls_left > 0
    /\ LET tx == create_tx(scanner,
                     IF scanner = "GM65" THEN GM65_command.get_sw_version
                     ELSE M3YW_command.get_sw_version, << >>)
       IN  /\ tx_data' = tx
           /\ trace' = Append(trace, Event("write", tx, baudrate))
           /\ \E chunks \in Chunkings(IF Addressed(World, tx) THEN DeviceReply(dev, tx)
                                      ELSE << >>, MaxChunks) :
                  line' = line \o chunks
    /\ op' = [name |-> "get_sw_version", arg |-> << >>, start |-> Len(trace) + 1]
    /\ pc' = "read"
    /\ UNCHANGED << scanner, revision, command, value, rx_data, parsed, origin,
                    checksum_vars, elapsed, baudrate, dev, env, calls, calls_left,
                    scanner_idx, baud_idx, found >>

\* rx_data = self.serial_port.read(1024): the one read of send_and_parse
send_and_parse_read ==
    /\ pc = "read"
    /\ \E k \in 0..Len(line) :
           /\ rx_data' = port_read(k)
           /\ line' = SubSeq(line, k + 1, Len(line))
           /\ trace' = Append(trace, Event("read", port_read(k), baudrate))
    /\ pc' = "parse_rx"
    /\ UNCHANGED << scanner, revision, command, value, tx_data, parsed, origin,
                    checksum_vars, elapsed, baudrate, dev, env, op, calls, calls_left,
                    scanner_idx, baud_idx, found >>

\* reply, extra = self.parse_rx(rx_data); return reply, extra
send_and_parse_return ==
    /\ pc = "parse_rx"
    /\ parsed' = parse_rx(scanner, rx_data)
    /\ calls' = Append(calls, Completed(op.name, op.arg,
                                        ReturnPair(parse_rx(scanner, rx_data)),
                                        op.start, Len(trace)))
    /\ calls_left' = calls_left - 1
    /\ pc' = IF calls_left > 1 THEN "send_and_parse" ELSE "returned"
    /\ UNCHANGED << scanner, revision, command, value, tx_data, rx_data, origin,
                    checksum_vars, wait_vars, baudrate, trace, dev, env, op,
                    scanner_idx, baud_idx, found >>

\* one pass of `while (time.time() - start) <= scan_duration: rx_data += ser.read(1024)`;
\* a read that returns nothing has waited out the port's timeout of one second
capture_read ==
    /\ pc = "capture"
    /\ elapsed <= scan_duration
    /\ \E k \in 0..Len(line), dt \in { 0, 1 } :
           /\ k = 0 => dt = 1
           /\ rx_data' = rx_data \o port_read(k)
           /\ line' = SubSeq(line, k + 1, Len(line))
           /\ elapsed' = elapsed + dt
    /\ UNCHANGED << scanner, pc, revision, command, value, tx_data, parsed, origin,
                    checksum_vars, driver_vars >>

\* the loop condition is false: the deadline has passed
capture_end ==
    /\ pc = "capture"
    /\ elapsed > scan_duration
    /\ pc' = "captured"
    /\ UNCHANGED << scanner, codec_vars, driver_vars >>

NextWait ==
    \/ send_and_parse_write
    \/ send_and_parse_read
    \/ send_and_parse_return
    \/ capture_read
    \/ capture_end

SpecWait == InitWait /\ [][NextWait]_vars

(***************************************************************************)
(* Reference definitions used to state the properties.                     *)
(***************************************************************************)
\* textbook CRC16-XMODEM: 16-bit shift register, polynomial 0x1021, initial value 0
RefCrcShift(crc) ==
    IF crc >= 32768 THEN Xor((crc * 2) % 65536, 4129) ELSE crc * 2

RefCrcByte(crc, byte) ==
    LET c0 == Xor(crc, byte * 256)
        c1 == RefCrcShift(c0)
        c2 == RefCrcShift(c1)
        c3 == RefCrcShift(c2)
        c4 == RefCrcShift(c3)
        c5 == RefCrcShift(c4)
        c6 == RefCrcShift(c5)
        c7 == RefCrcShift(c6)
    IN  RefCrcShift(c7)

RECURSIVE RefCrcAcc(_, _)
RefCrcAcc(crc, data) ==
    IF data = << >> THEN crc
    ELSE LET next == RefCrcByte(crc, Head(data))
         IN  IF next >= 0 THEN RefCrcAcc(next, Tail(data)) ELSE next

RefCrc16(data) == << RefCrcAcc(0, data) \div 256, RefCrcAcc(0, data) % 256 >>

\* the tag a receive header must carry
GoodTag(d) == IF d = "GM65" THEN << 2, 0, 0 >> ELSE << 90, 1 >>

TagOf(d, buf) == SubSeq(buf, 1, Len(GoodTag(d)))

\* the value of the length field of a buffer of at least 4 bytes
DeclaredLen(d, buf) == IF d = "GM65" THEN buf[4] ELSE (buf[3] * 256) + buf[4]

\* bytes of checksum that follow the payload
CksLen(d) == IF d = "GM65" THEN 2 ELSE 1

\* the ways a receive buffer can be malformed
TruncatedHeader(buf) == Len(buf) < 4

HeaderMismatch(d, buf) == Len(buf) >= 4 /\ TagOf(d, buf) # GoodTag(d)

PayloadMissing(d, buf) == Len(buf) >= 4 /\ Len(buf) < 4 + DeclaredLen(d, buf)

ChecksumMismatch(d, buf) ==
    /\ Len(buf) >= 4 + DeclaredLen(d, buf) + CksLen(d)
    /\ SubSeq(buf, 5 + DeclaredLen(d, buf), 4 + DeclaredLen(d, buf) + CksLen(d))
         # checksum(d, SubSeq(buf, 2, 4 + DeclaredLen(d, buf)))

Malformed(d, buf) ==
    \/ TruncatedHeader(buf)
    \/ HeaderMismatch(d, buf)
    \/ PayloadMissing(d, buf)
    \/ ChecksumMismatch(d, buf)

\* a GM65 reply as the wire format gives it: 02 00 00, L, L payload bytes, CRC16 over
\* bytes 1 .. 3+L in the two bytes after the payload
GM65WireFrame(buf) ==
    /\ Len(buf) >= 4
    /\ SubSeq(buf, 1, 3) = << 2, 0, 0 >>
    /\ Len(buf) >= 4 + buf[4] + 2
    /\ SubSeq(buf, 5 + buf[4], 6 + buf[4]) = RefCrc16(SubSeq(buf, 2, 4 + buf[4]))

\* an M3Y-W reply whose BCC covers the region the encoder covers: the length
\* field and the payload
M3YWWireFrame(buf) ==
    /\ Len(buf) >= 4
    /\ SubSeq(buf, 1, 2) = << 90, 1 >>
    /\ Len(buf) >= 4 + DeclaredLen("M3YW", buf) + 2
    /\ buf[5 + DeclaredLen("M3YW", buf)]
         = bcc_acc(0, SubSeq(buf, 3, 4 + DeclaredLen("M3YW", buf)))
    /\ buf[6 + DeclaredLen("M3YW", buf)] = 165

(***************************************************************************)
(* Properties of the frame codec (checked under SpecCodec).                *)
(***************************************************************************)
\* C1 as stated: decoding, under the same scanner class, the frame create_tx produced
\* returns the encoded payload (opcode ++ argument) with leftover b"".
C1_RoundTrip ==
    (pc = "decoded" /\ origin = "loopback")
        => parsed = Decoded(command \o value, << >>)

\* C1 amended: decoding the frame create_tx produced always returns the failure
\* result (None, b""), for both classes and every opcode and argument: the transmit
\* header (7E 00 / 5A 00) is never the receive tag (02 00 00 / 5A 01).
C1_LoopbackFails ==
    (pc = "decoded" /\ origin = "loopback") => parsed = Failure

C1_Witness ==
    /\ pc = "decoded" /\ origin = "loopback"
    /\ scanner = "M3YW" /\ command = M3YW_command.get_sw_version /\ value = << >>

\* C5 as stated: parse_rx returns the failure result for a buffer shorter than the
\* 4-byte header, one whose tag is not the header-OK pattern, one whose checksum does
\* not verify, and one whose declared length exceeds the bytes present.
C5_MalformedFails ==
    (pc = "decoded" /\ origin = "device" /\ Malformed(scanner, rx_data))
        => parsed = Failure

\* C6 as stated: the GM65 decoder accepts a buffer iff it is a wire-format reply
\* (tag 02 00 00, CRC16 over bytes 1 .. 3+L in the 2 bytes after the payload), and then
\* returns the L bytes after the header and every byte after the CRC.
C6_GM65AcceptIff ==
    (pc = "decoded" /\ scanner = "GM65")
        => /\ parsed.ok <=> GM65WireFrame(rx_data)
           /\ parsed.ok =>
                /\ parsed.reply = SubSeq(rx_data, 5, 4 + rx_data[4])
                /\ parsed.extra = SubSeq(rx_data, 7 + rx_data[4], Len(rx_data))

\* C7 as stated: the M3Y-W decoder accepts a reply 5A 01, len16, payload, BCC, A5, rest
\* whose BCC covers the length field and the payload (the encoder's region) and
\* returns (payload, rest); it accepts no buffer whose tag is not 5A 01.
C7_M3YWDecode ==
    (pc = "decoded" /\ scanner = "M3YW")
        => /\ M3YWWireFrame(rx_data) =>
                parsed = Decoded(SubSeq(rx_data, 5, 4 + DeclaredLen("M3YW", rx_data)),
                                 SubSeq(rx_data, 7 + DeclaredLen("M3YW", rx_data),
                                        Len(rx_data)))
           /\ parsed.ok => TagOf("M3YW", rx_data) = << 90, 1 >>

\* C8: the GM65 frame is 7E 00, opcode, argument, then the big-endian CRC16-XMODEM of
\* opcode ++ argument (header not covered), with no length prefix and no trailer.
C8_GM65Encode ==
    (pc = "encoded" /\ scanner = "GM65")
        => /\ Len(tx_data) = 2 + Len(command) + Len(value) + 2
           /\ SubSeq(tx_data, 1, 2) = << 126, 0 >>
           /\ SubSeq(tx_data, 3, 2 + Len(command)) = command
           /\ SubSeq(tx_data, 3 + Len(command), 2 + Len(command) + Len(value)) = value
           /\ SubSeq(tx_data, Len(tx_data) - 1, Len(tx_data)) = RefCrc16(command \o value)

C8_Witness ==
    /\ pc = "encoded" /\ scanner = "GM65"
    /\ command = GM65_command.set_settings /\ value = << 140 >>
    /\ tx_data = << 126, 0, 8, 1, 0, 0, 140 >> \o RefCrc16(<< 8, 1, 0, 0, 140 >>)

\* C9 as stated: the M3Y-W frame is 5A 00, len16(opcode), opcode, argument,
\* BCC(len16(opcode) ++ opcode ++ argument), A5.
C9_M3YWEncode ==
    (pc = "encoded" /\ scanner = "M3YW")
        => tx_data = << 90, 0 >> \o to_bytes2(Len(command)) \o command \o value
                       \o << bcc_acc(0, to_bytes2(Len(command)) \o command \o value) >>
                       \o << 165 >>

(***************************************************************************)
(* Reading a finished call back from the trace.                            *)
(***************************************************************************)
\* the events a finished call caused
Segment(c) == SubSeq(trace, c.first, c.last)

\* reads that happened before the call, and up to its end
ReadsBefore(c) == Len(Reads(SubSeq(trace, 1, c.first - 1)))

ReadsThrough(c) == Len(Reads(SubSeq(trace, 1, c.last)))

\* the one damaged read of the run fell into the call
FaultInCall(c) ==
    env.fault_at > ReadsBefore(c) /\ env.fault_at <= ReadsThrough(c)

\* the dialect a written frame is in, by its first byte (7E / 5A)
FrameDialect(data) == IF data[1] = 126 THEN "GM65" ELSE "M3YW"

\* the probes of a call: dialect and rate of every frame written
Probes(c) ==
    [k \in 1..Len(Writes(Segment(c))) |->
        [dialect |-> FrameDialect(Writes(Segment(c))[k].data),
         baud |-> Writes(Segment(c))[k].baud]]

\* the rate the port was last set to during the call (0: never set)
LastBaudSet(c) ==
    LET sets == SelectSeq(Segment(c), LAMBDA e : e.ev = "baudrate")
    IN  IF sets = << >> THEN 0 ELSE sets[Len(sets)].baud

\* the 12 candidates in the order of the sweep: GM65 at the six rates, then M3Y-W
CandidateRates == << 9600, 14400, 19200, 38400, 57600, 115200 >>

Candidates ==
    [k \in 1..12 |->
        [dialect |-> IF k <= 6 THEN "GM65" ELSE "M3YW",
         baud |-> CandidateRates[((k - 1) % 6) + 1]]]

\* no read of the call holds a well-formed reply of either dialect
NoValidReply(c) ==
    \A k \in 1..Len(Reads(Segment(c))) :
        \A d \in { "GM65", "M3YW" } : Malformed(d, Reads(Segment(c))[k].data)

C3_DetectExhausts ==
    /\ op.name = "detect_scanner" =>
           Len(Writes(SubSeq(trace, op.start, Len(trace)))) <= 12
    /\ \A i \in 1..Len(calls) :
           calls[i].name = "detect_scanner" =>
               /\ calls[i].result.kind = "raise" =>
                      calls[i].result.error = "RuntimeError"
               /\ NoValidReply(calls[i]) =>
                      /\ calls[i].result = Raise("RuntimeError")
                      /\ Probes(calls[i]) = Candidates

(***************************************************************************)
(* The command surface.                                                    *)
(***************************************************************************)
\* the failures of the error taxonomy that an exception class stands for
TypedFailures == { "NotImplementedError", "ValueError", "RuntimeError" }

\* C4: whatever the device sends back, a command other than set_beeper(0) returns
\* a reply pair, a flag or a value, or fails with a typed failure.
C4_TypedOutcome ==
    \A i \in 1..Len(calls) :
        ~(calls[i].name = "set_beeper" /\ calls[i].arg = << 0 >>)
        => \/ calls[i].result.kind \in { "pair", "flag", "value" }
           \/ /\ calls[i].result.kind = "raise"
              /\ calls[i].result.error \in TypedFailures

(***************************************************************************)
(* GM65 settings bits.                                                     *)
(***************************************************************************)
\* C10: on a GM65 module that stores the settings byte, get_settings right after
\* set_illumination(mode) returns one byte with bits 2 and 3 set for mode 1, both
\* clear for mode -1, and bit 2 set and bit 3 clear for mode 0.
C10_IlluminationBits ==
    \A i \in 1..(Len(calls) - 1) :
        (calls[i].name = "set_illumination" /\ calls[i + 1].name = "get_settings")
        => /\ calls[i].result = ReturnFlag(TRUE)
           /\ calls[i + 1].result.kind = "pair"
           /\ calls[i + 1].result.ok
           /\ Len(calls[i + 1].result.reply) = 1
           /\ LET m == calls[i].arg[1]
                  b == calls[i + 1].result.reply[1]
              IN  /\ m = 1 => (check_bit(b, 2) = 1 /\ check_bit(b, 3) = 1)
                  /\ m = -1 => (check_bit(b, 2) = 0 /\ check_bit(b, 3) = 0)
                  /\ m = 0 => (check_bit(b, 2) = 1 /\ check_bit(b, 3) = 0)

\* C10: from settings byte 08 (bit 3 set, bit 2 clear), set_illumination(0) and
\* then get_settings, which returned 04.
C10_Witness ==
    /\ Len(calls) = 2
    /\ calls[1].name = "set_illumination"
    /\ calls[1].arg = << 0 >>
    /\ calls[2].name = "get_settings"
    /\ calls[2].result.reply = << 4 >>
    /\ Len(Writes(Segment(calls[1]))) = 3

(***************************************************************************)
(* Changing the baud rate.                                                 *)
(***************************************************************************)
\* the rate the port had when the call began
PortRateBefore(c) ==
    LET sets == SelectSeq(SubSeq(trace, 1, c.first - 1), LAMBDA e : e.ev = "baudrate")
    IN  IF sets = << >> THEN default_baudrate ELSE sets[Len(sets)].baud

\* the change-baud frame of a scanner class for a rate
IsChangeBaudFrame(d, data, rate) ==
    IF d = "GM65"
    THEN data = << 126, 0, 8, 2, 0, 42 >> \o GM65_baudvalues(rate)
                  \o RefCrc16(<< 8, 2, 0, 42 >> \o GM65_baudvalues(rate))
    ELSE /\ SubSeq(data, 1, 2) = << 90, 0 >>
         /\ M3YW_body(data) = M3YW_command.set_baudrate \o Str(rate)

\* the get_software_version frame of a scanner class
IsVersionFrame(d, data) ==
    IF d = "GM65"
    THEN data = << 126, 0, 7, 1, 0, 226, 1 >> \o RefCrc16(<< 7, 1, 0, 226, 1 >>)
    ELSE /\ SubSeq(data, 1, 2) = << 90, 0 >>
         /\ M3YW_body(data) = M3YW_command.get_sw_version

\* C11 as stated: set_baudrate(new_rate) writes the change-baud frame at the old
\* rate and reads once, then sets the port to new_rate, then issues
\* get_software_version at new_rate and reads once; it reports success iff the
\* buffer of that last read decodes to a valid reply, and failure otherwise.
C11_SetBaudrate ==
    \A i \in 1..Len(calls) :
        calls[i].name = "set_baudrate" =>
            LET seg == Segment(calls[i])
                new_rate == calls[i].arg[1]
            IN  /\ Len(seg) = 5
                /\ seg[1].ev = "write"
                /\ seg[1].baud = PortRateBefore(calls[i])
                /\ IsChangeBaudFrame(scanner, seg[1].data, new_rate)
                /\ seg[2].ev = "read"
                /\ seg[3] = Event("baudrate", << >>, new_rate)
                /\ seg[4].ev = "write"
                /\ seg[4].baud = new_rate
                /\ IsVersionFrame(scanner, seg[4].data)
                /\ seg[5].ev = "read"
                /\ calls[i].result.kind = "flag"
                /\ calls[i].result.flag <=> parse_rx(scanner, seg[5].data).ok

(***************************************************************************)
(* Unsupported operations and rejected arguments.                          *)
(***************************************************************************)
\* C12 as stated: on either scanner class, whatever is read back (a valid settings
\* reply, nothing, or a damaged reply), set_beeper(0) ends with the
\* unsupported-operation error (NotImplementedError) and with no other error.
C12_BeeperZeroUnsupported ==
    \A i \in 1..Len(calls) :
        (calls[i].name = "set_beeper" /\ calls[i].arg = << 0 >>)
        => calls[i].result = Raise("NotImplementedError")

\* the commands M3YWScanner inherits as BaseScanner placeholders
M3YWPlaceholders ==
    { "get_hw_version", "get_sw_year", "get_settings", "set_settings", "save_settings" }

\* C13: on an M3Y-W driver each of get_hardware_version, get_software_year,
\* get_settings, set_settings and save_settings signals the unsupported-operation
\* error without writing, reading or changing the port's baud rate;
\* get_software_version, on either class, never signals it: it writes its frame,
\* reads once and returns a reply pair.
C13_M3YWUnsupported ==
    [][ calls' # calls =>
          LET c == calls'[Len(calls')]
          IN  /\ (scanner = "M3YW" /\ c.name \in M3YWPlaceholders)
                 => /\ c.result = Raise("NotImplementedError")
                    /\ trace' = trace
                    /\ baudrate' = baudrate
                    /\ dev' = dev
              /\ c.name = "get_sw_version"
                 => /\ c.result.kind = "pair"
                    /\ Len(trace') = Len(trace) + 2
                    /\ IsVersionFrame(scanner, trace'[Len(trace) + 1].data)
                    /\ baudrate' = baudrate ]_vars

\* C13: set_settings on an M3Y-W driver facing an M3Y-W module raised the
\* unsupported-operation error with nothing on the transport.
C13_Witness ==
    /\ scanner = "M3YW"
    /\ dev.dialect = "M3YW"
    /\ Len(calls) = 1
    /\ calls[1].name = "set_settings"
    /\ calls[1].result = Raise("NotImplementedError")
    /\ trace = << >>
    /\ baudrate = default_baudrate

\* C14 as stated: GM65 set_same_barcode_delay rejects every input of 12.7 s or more
\* (127 tenths of a second or more) with a domain-value error (ValueError), before
\* any I/O: nothing is written and nothing is read.
C14_DelayDomain ==
    \A i \in 1..Len(calls) :
        ( /\ scanner = "GM65"
          /\ calls[i].name = "set_same_barcode_delay"
          /\ calls[i].arg[1] >= 1270 )
        => /\ calls[i].result = Raise("ValueError")
           /\ Segment(calls[i]) = << >>

(***************************************************************************)
(* Properties of the checksum library (checked under SpecChecksum).        *)
(***************************************************************************)
\* C15 as stated: check_crc16_xmodem(data ++ compute_crc16_xmodem(data)) and
\* check_bcc(data ++ compute_bcc(data)) are true for all byte sequences data,
\* including the empty sequence.
C15_VerifyRoundTrip ==
    pc = "checked" => verified

\* C15 amended: both are true for every non-empty data; for the empty sequence both
\* are false, because check_crc16_xmodem rejects an input shorter than 3 bytes and
\* check_bcc one shorter than 2 bytes.
C15_VerifyNonEmpty ==
    pc = "checked" =>
        /\ data_with_crc = cs_data \o checksum(scanner, cs_data)
        /\ verified <=> cs_data # << >>

\* C15: the CRC of the empty sequence, 00 00, handed to check_crc16_xmodem was
\* rejected.
C15_Witness ==
    /\ pc = "checked"
    /\ scanner = "GM65"
    /\ cs_data = << >>
    /\ data_with_crc = << 0, 0 >>
    /\ ~verified

\* C16: the bit-serial loop of compute_crc16_xmodem yields the standard
\* CRC16-XMODEM (polynomial 0x1021, initial value 0, no reflection, big-endian)
\* of every input, 00 00 for the empty input and 31 C3 for "123456789", and its
\* accumulator stays below 2^17 at every statement of the loop.
C16_CrcIsXmodem ==
    /\ cs_crc >= 0 /\ cs_crc < 131072
    /\ (pc = "computed" /\ scanner = "GM65") =>
           /\ data_with_crc = cs_data \o RefCrc16(cs_data)
           /\ compute_crc16_xmodem(cs_data) = RefCrc16(cs_data)
           /\ cs_data = << >> => data_with_crc = << 0, 0 >>
           /\ cs_data = TestVector => data_with_crc = TestVector \o << 49, 195 >>

\* C16: the loop ended on "123456789" with 31 C3.
C16_Witness ==
    /\ pc = "computed"
    /\ scanner = "GM65"
    /\ cs_data = TestVector
    /\ to_bytes2(cs_crc % 65536) = << 49, 195 >>
    /\ byte_idx = 9 /\ bit_i = 0

\* C17: for every non-empty data and every bit of it, data with that one bit
\* flipped, followed by the CRC of the original data, fails check_crc16_xmodem.
C17_SingleBitFlip ==
    (pc = "checked_damaged" /\ scanner = "GM65") => ~verified

\* C17: "123456789" with the top bit of its first byte flipped was rejected.
C17_Witness ==
    /\ pc = "checked_damaged"
    /\ scanner = "GM65"
    /\ cs_data = TestVector
    /\ data_with_crc = << 177 >> \o Tail(TestVector) \o << 49, 195 >>
    /\ ~verified

(***************************************************************************)
(* The baud-rate sweep (checked under SpecSweep).                          *)
(***************************************************************************)
\* C18 as stated: against a device that starts at the port's rate and accepts a
\* change to exactly the rates of a set S, each of the 12 attempts of test_baudrates
\* (the six common rates ascending, then descending) reports Success iff the
\* attempted rate is in S.
C18_SweepReportsSupported ==
    \A i \in 1..Len(calls) :
        calls[i].name = "set_baudrate" =>
            /\ i <= 12
            /\ calls[i].arg[1] = (common_baud_rates \o << 115200, 57600, 38400, 19200,
                                                        14400, 9600 >>)[i]
            /\ calls[i].result.kind = "flag"
            /\ calls[i].result.flag <=> calls[i].arg[1] \in dev.accepts

(***************************************************************************)
(* find_baudrate (checked under SpecDetect).                               *)
(***************************************************************************)
\* the k-th read of a call decodes to a valid reply under the scanner's class
ValidDecode(c, k) == parse_rx(scanner, Reads(Segment(c))[k].data).ok

\* C19 as stated: find_baudrate sets the port to each common rate in the order
\* 9600, 14400, 19200, 38400, 57600, 115200 and issues get_software_version at each;
\* it returns the first rate whose reply decodes to a valid reply, a zero-length
\* payload included, having probed no later rate, and returns None iff no rate
\* yields a valid decode.
C19_FindBaudrate ==
    \A i \in 1..Len(calls) :
        calls[i].name = "find_baudrate" =>
            LET c == calls[i]
                n == Len(Probes(c))
            IN  /\ n \in 1..6
                /\ Len(Segment(c)) = 3 * n
                /\ \A k \in 1..n :
                       /\ Segment(c)[(3 * k) - 2] = Event("baudrate", << >>, common_baud_rates[k])
                       /\ Segment(c)[(3 * k) - 1].ev = "write"
                       /\ Segment(c)[(3 * k) - 1].baud = common_baud_rates[k]
                       /\ IsVersionFrame(scanner, Segment(c)[(3 * k) - 1].data)
                       /\ Segment(c)[3 * k].ev = "read"
                /\ \A k \in 1..(n - 1) : ~ValidDecode(c, k)
                /\ IF ValidDecode(c, n)
                   THEN c.result = ReturnNum(common_baud_rates[n])
                   ELSE n = 6 /\ c.result = ReturnVal("None")

(***************************************************************************)
(* GM65 read-modify-write (checked under SpecRmw).                         *)
(***************************************************************************)
\* byte b with the bits of `ones` set, the bits of `zeros` cleared, the others kept
WithBits(b, ones, zeros) ==
    LET bit(i) == IF i \in ones THEN 1 ELSE IF i \in zeros THEN 0 ELSE (b \div (2 ^ i)) % 2
    IN  bit(0) + 2 * bit(1) + 4 * bit(2) + 8 * bit(3) + 16 * bit(4) + 32 * bit(5)
          + 64 * bit(6) + 128 * bit(7)

\* the settings byte a finished update has to send, given the byte it read
UpdatedByte(c, b) ==
    CASE c.name = "set_continuous_mode" -> WithBits(b, { 1 }, { 0 })
      [] c.name = "set_command_mode" -> WithBits(b, { 0 }, { 1 })
      [] c.name = "set_illumination" /\ c.arg = << -1 >> -> WithBits(b, { }, { 2, 3 })
      [] c.name = "set_illumination" /\ c.arg = << 0 >> -> WithBits(b, { 2 }, { 3 })
      [] c.name = "set_illumination" /\ c.arg = << 1 >> -> WithBits(b, { 2, 3 }, { })
      [] c.name = "set_aimer" /\ c.arg = << -1 >> -> WithBits(b, { }, { 4, 5 })
      [] c.name = "set_aimer" /\ c.arg = << 0 >> -> WithBits(b, { 4 }, { 5 })
      [] c.name = "set_aimer" /\ c.arg = << 1 >> -> WithBits(b, { 4, 5 }, { })
      [] c.name = "set_beeper" /\ c.arg = << -1 >> -> WithBits(b, { }, { 6 })
      [] c.name = "set_beeper" /\ c.arg = << 1 >> -> WithBits(b, { 6 }, { })

\* the three GM65 frames of an update
GetSettingsFrame == << 126, 0, 7, 1, 0, 0, 1 >> \o RefCrc16(<< 7, 1, 0, 0, 1 >>)

SetSettingsFrame(b) == << 126, 0, 8, 1, 0, 0, b >> \o RefCrc16(<< 8, 1, 0, 0, b >>)

SaveSettingsFrame == << 126, 0, 9, 1, 0, 0, 0 >> \o RefCrc16(<< 9, 1, 0, 0, 0 >>)

IsSetSettingsWrite(e) ==
    e.ev = "write" /\ Len(e.data) = 9 /\ SubSeq(e.data, 1, 6) = << 126, 0, 8, 1, 0, 0 >>

\* C20: every GM65 set_illumination, set_aimer, set_beeper(-1 or 1),
\* set_continuous_mode or set_command_mode that completes wrote exactly three
\* frames, get-settings, set-settings, save-settings, in that order, each followed
\* by one read; the byte in set-settings is the byte read back by the get-settings
\* of that same call with the operation's bits changed; and every set-settings
\* these operations write is followed by a save-settings within the same call.
C20_ReadModifyWrite ==
    \A i \in 1..Len(calls) :
        LET c == calls[i]
            seg == Segment(calls[i])
        IN  /\ (c.result.kind # "raise" /\ ~(c.name = "set_beeper" /\ c.arg = << 0 >>))
               => /\ Len(seg) = 6
                  /\ seg[1] = Event("write", GetSettingsFrame, seg[1].baud)
                  /\ seg[2].ev = "read"
                  /\ GM65_parse_rx(seg[2].data).ok
                  /\ seg[3] = Event("write",
                                    SetSettingsFrame(
                                        UpdatedByte(c, GM65_parse_rx(seg[2].data).reply[1])),
                                    seg[3].baud)
                  /\ seg[4].ev = "read"
                  /\ seg[5] = Event("write", SaveSettingsFrame, seg[5].baud)
                  /\ seg[6].ev = "read"
                  /\ c.result = ReturnFlag(TRUE)
            /\ \A k \in 1..Len(seg) :
                   IsSetSettingsWrite(seg[k])
                   => \E j \in (k + 1)..Len(seg) :
                          seg[j].ev = "write" /\ seg[j].data = SaveSettingsFrame

\* C20: from settings byte 55, set_illumination(1) wrote 5D and then
\* set_beeper(-1) read 5D back and wrote 1D.
C20_Witness ==
    /\ Len(calls) = 2
    /\ calls[1].name = "set_illumination" /\ calls[1].arg = << 1 >>
    /\ calls[2].name = "set_beeper" /\ calls[2].arg = << -1 >>
    /\ calls[2].result = ReturnFlag(TRUE)
    /\ Len(trace) = 12
    /\ trace[3].data = SetSettingsFrame(93)
    /\ trace[8].data = GM65_reply_frame(<< 93 >>)
    /\ trace[9].data = SetSettingsFrame(29)
    /\ trace[11].data = SaveSettingsFrame

(***************************************************************************)
(* Request/response discipline (checked under SpecSession).                *)
(***************************************************************************)
\* C21: over any sequence of driver commands the transport trace is a sequence of
\* complete request/response cycles: every write is followed at once by its read, at
\* the same rate, every read follows its write, no two writes come without a read
\* between them, every assignment to the port's baud rate falls between two complete
\* cycles, and a command starts only after the one before it has ended.
C21_RequestResponse ==
    /\ \A k \in 1..Len(trace) :
           /\ trace[k].ev = "write"
              => /\ k < Len(trace)
                 /\ trace[k + 1].ev = "read"
                 /\ trace[k + 1].baud = trace[k].baud
           /\ trace[k].ev = "read"
              => /\ k > 1
                 /\ trace[k - 1].ev = "write"
           /\ trace[k].ev = "baudrate"
              => /\ k > 1 => trace[k - 1].ev \in { "read", "baudrate" }
                 /\ k < Len(trace) => trace[k + 1].ev \in { "write", "baudrate" }
    /\ \A i \in 1..Len(calls) :
           /\ calls[i].first = (IF i = 1 THEN 1 ELSE calls[i - 1].last + 1)
           /\ calls[i].last >= calls[i].first - 1
    /\ (pc = "idle" /\ calls # << >>) => calls[Len(calls)].last = Len(trace)

\* C21: set_baudrate(19200) on a GM65 module and then find_baudrate, which found
\* 19200 at its third probe: five cycles, the rate assigned between them.
C21_Witness ==
    /\ scanner = "GM65"
    /\ Len(calls) = 2
    /\ calls[1].name = "set_baudrate" /\ calls[1].result = ReturnFlag(TRUE)
    /\ calls[2].name = "find_baudrate" /\ calls[2].result = ReturnNum(19200)
    /\ Len(Writes(trace)) = 5
    /\ Len(Reads(trace)) = 5
    /\ Len(trace) = 14

(***************************************************************************)
(* Waiting for a reply (checked under SpecWait).                           *)
(***************************************************************************)
\* C22 as stated: the wait for a command's reply reads from the transport again
\* and again and accumulates the bytes until its deadline: a valid reply frame that
\* the transport hands over in two or more chunks is decoded as one frame by the
\* command that asked for it, and no byte of it is left for a later read.
C22_PollingRead ==
    \A i \in 1..Len(calls) :
        (i = 1 /\ calls[i].name = "get_sw_version")
        => /\ calls[i].result.kind = "pair"
           /\ calls[i].result.ok
           /\ reply_frame(scanner, calls[i].result.reply)
                = DeviceReply(dev, Writes(Segment(calls[i]))[1].data)
           /\ Len(calls) = 1 => line = << >>

(***************************************************************************)
(* Leftover bytes (checked under SpecStream).                              *)
(***************************************************************************)
\* a well-formed reply frame of a dialect, as the wire format gives it: GM65 with the
\* CRC16 over bytes 1 .. 3+L, M3Y-W with the BCC over the length field and the payload
WireFrame(d, payload) ==
    IF d = "GM65"
    THEN << 2, 0, 0, Len(payload) >> \o payload
             \o RefCrc16(<< 0, 0, Len(payload) >> \o payload)
    ELSE M3YW_wire_frame(payload)

\* C23 as stated: for either dialect and any two well-formed reply frames F1
\* (payload p1) and F2 (payload p2), decoding F1 ++ F2 returns (p1, F2), the leftover
\* starting right after F1's checksum (GM65) or end marker (M3Y-W), and decoding
\* that leftover returns (p2, b"").
C23_LeftoverRedecodable ==
    \A p1 \in Payloads, p2 \in Payloads :
        (calls # << >> /\ calls[1].arg = WireFrame(scanner, p1) \o WireFrame(scanner, p2))
        => /\ calls[1].result = ReturnPair(Decoded(p1, WireFrame(scanner, p2)))
           /\ Len(calls) >= 2 =>
                  /\ calls[2].arg = WireFrame(scanner, p2)
                  /\ calls[2].result = ReturnPair(Decoded(p2, << >>))
           /\ pc = "drained" => Len(calls) = 2

\* the same for the frames parse_rx accepts: an M3Y-W reply whose BCC also covers the
\* tag byte 01
C23_LeftoverOfAccepted ==
    \A p1 \in Payloads, p2 \in Payloads :
        (calls # << >> /\ calls[1].arg = reply_frame(scanner, p1) \o reply_frame(scanner, p2))
        => /\ calls[1].result = ReturnPair(Decoded(p1, reply_frame(scanner, p2)))
           /\ Len(calls) >= 2 =>
                  /\ calls[2].arg = reply_frame(scanner, p2)
                  /\ calls[2].result = ReturnPair(Decoded(p2, << >>))
           /\ pc = "drained" => Len(calls) = 2

(***************************************************************************)
(* Accepted buffers hold a whole frame (checked under SpecCodec).          *)
(***************************************************************************)
\* bytes of a whole reply frame that declares a payload of n bytes: header, payload,
\* checksum, and the end marker of M3Y-W
FrameLen(d, n) == 4 + n + CksLen(d) + (IF d = "GM65" THEN 0 ELSE 1)

\* C24 as stated: whenever parse_rx of either class succeeds, the payload it returns
\* has exactly as many bytes as the length field declares and the buffer held the
\* whole frame (header, declared-length payload, checksum and trailer); a buffer that
\* ends before the declared payload and checksum are complete is never accepted.
C24_AcceptedIsWhole ==
    (pc = "decoded" /\ parsed.ok)
        => /\ Len(parsed.reply) = DeclaredLen(scanner, rx_data)
           /\ Len(rx_data) >= FrameLen(scanner, DeclaredLen(scanner, rx_data))

(***************************************************************************)
(* The two receive grammars exclude each other.                            *)
(***************************************************************************)
OtherDialect(d) == IF d = "GM65" THEN "M3YW" ELSE "GM65"

\* C25: no buffer read from the port (a reply of either dialect, intact or damaged,
\* or noise) is accepted by both GM65Scanner.parse_rx and M3YWScanner.parse_rx, and
\* when detect_scanner returns a scanner, the read that ended the search decodes
\* under the class returned and no read of the search is a valid reply of the other
\* dialect.
C25_NoFalsePositive ==
    /\ \A k \in 1..Len(trace) :
           trace[k].ev = "read"
           => ~(GM65_parse_rx(trace[k].data).ok /\ M3YW_parse_rx(trace[k].data).ok)
    /\ \A i \in 1..Len(calls) :
           (calls[i].name = "detect_scanner" /\ calls[i].result.kind = "value")
           => LET reads == Reads(Segment(calls[i]))
              IN  /\ reads # << >>
                  /\ parse_rx(calls[i].result.val, reads[Len(reads)].data).ok
                  /\ \A k \in 1..Len(reads) :
                         ~parse_rx(OtherDialect(calls[i].result.val), reads[k].data).ok

\* C25: an M3Y-W module at 9600 was found by the seventh probe, after the six GM65
\* probes drew nothing; its reply is no GM65 reply.
C25_Witness ==
    /\ dev.dialect = "M3YW"
    /\ dev.baud = 9600
    /\ Len(calls) = 1
    /\ calls[1].name = "detect_scanner"
    /\ calls[1].result = ReturnVal("M3YW")
    /\ Len(Probes(calls[1])) = 7
    /\ M3YW_parse_rx(trace[Len(trace)].data).ok
    /\ ~GM65_parse_rx(trace[Len(trace)].data).ok

\* the same exclusion on the generated receive buffers (checked under SpecCodec)
C25_BuffersExclusive ==
    (pc = "decoded" /\ parsed.ok) => ~parse_rx(OtherDialect(scanner), rx_data).ok

(***************************************************************************)
(* The timing commands (checked under SpecTiming).                         *)
(***************************************************************************)
\* the value of a string of ASCII decimal digits
RECURSIVE DecimalValue(_)
DecimalValue(digits) ==
    IF digits = << >> THEN 0
    ELSE (10 * DecimalValue(SubSeq(digits, 1, Len(digits) - 1)))
             + (digits[Len(digits)] - 48)

\* text is the decimal notation of n: digits only, a minus sign before them for a
\* negative number, no leading zero
IsDecimalOf(text, n) ==
    LET digits == IF n < 0 THEN Tail(text) ELSE text
    IN  /\ text # << >>
        /\ n < 0 => text[1] = 45
        /\ digits # << >>
        /\ \A k \in 1..Len(digits) : digits[k] \in 48..57
        /\ Len(digits) > 1 => digits[1] # 48
        /\ DecimalValue(digits) = (IF n < 0 THEN -n ELSE n)

\* an M3Y-W transmit frame that carries the command string cmd
IsM3YWFrameOf(data, cmd) ==
    /\ Len(data) = Len(cmd) + 6
    /\ SubSeq(data, 1, 4) = << 90, 0, Len(cmd) \div 256, Len(cmd) % 256 >>
    /\ SubSeq(data, 5, 4 + Len(cmd)) = cmd
    /\ data[Len(data)] = 165

\* C26: M3Y-W set_same_barcode_delay writes exactly three frames, S_CMD_MA31, then
\* S_CMD_MA41, then S_CMD_MARI followed by the delay in milliseconds as ASCII
\* decimal, each write followed by its read before the next write, and returns what
\* the reply to the third frame decodes to, whatever the first two reads brought.
C26_M3YWDelayPrimed ==
    \A i \in 1..Len(calls) :
        (scanner = "M3YW" /\ calls[i].name = "set_same_barcode_delay")
        => LET seg == Segment(calls[i])
           IN  /\ Len(seg) = 6
               /\ \A k \in { 1, 3, 5 } : seg[k].ev = "write" /\ seg[k + 1].ev = "read"
               /\ IsM3YWFrameOf(seg[1].data, << 83, 95, 67, 77, 68, 95, 77, 65, 51, 49 >>)
               /\ IsM3YWFrameOf(seg[3].data, << 83, 95, 67, 77, 68, 95, 77, 65, 52, 49 >>)
               /\ \E text \in { SubSeq(seg[5].data, 15, Len(seg[5].data) - 2) } :
                      /\ IsM3YWFrameOf(seg[5].data,
                             << 83, 95, 67, 77, 68, 95, 77, 65, 82, 73 >> \o text)
                      /\ IsDecimalOf(text, calls[i].arg[1] * 10)
               /\ calls[i].result = ReturnPair(M3YW_parse_rx(seg[6].data))

\* C26: a delay of 0.15 s on an M3Y-W module, the reply to S_CMD_MA31 lost:
\* S_CMD_MARI150 went out third and its reply was returned.
C26_Witness ==
    /\ scanner = "M3YW"
    /\ dev.dialect = "M3YW"
    /\ Len(calls) = 1
    /\ calls[1].name = "set_same_barcode_delay"
    /\ calls[1].arg = << 15 >>
    /\ Len(trace) = 6
    /\ trace[2].data = << >>
    /\ SubSeq(trace[5].data, 5, 17)
         = << 83, 95, 67, 77, 68, 95, 77, 65, 82, 73, 49, 53, 48 >>
    /\ calls[1].result.ok
    /\ calls[1].result.reply = << 6 >>

\* round(value * 10) for a value of h hundredths of a second: the integer nearest to
\* h / 10, and of two equally near ones the even one
RoundedTenths(h) ==
    CHOOSE n \in -400..400 :
        LET gap == IF (10 * n) >= h THEN (10 * n) - h ELSE h - (10 * n)
        IN  gap < 5 \/ (gap = 5 /\ n % 2 = 0)

\* the GM65 frame that writes one byte b to the zone at address addr
IsZoneWrite(data, addr, b) ==
    data = << 126, 0, 8, 1, 0, addr, b >> \o RefCrc16(<< 8, 1, 0, addr, b >>)

\* the interval encoding of GM65Scanner with the delay byte held to 128 + n for n up
\* to top
IntervalEncoding(top) ==
    \A i \in 1..Len(calls) :
        LET c == calls[i]
            n == RoundedTenths(calls[i].arg[1])
            seg == Segment(calls[i])
        IN  /\ (scanner = "GM65" /\ c.name = "set_read_interval")
               => /\ c.result.kind # "raise" <=> n \in 0..255
                  /\ c.result.kind # "raise"
                     => /\ Len(seg) = 2
                        /\ seg[1].ev = "write"
                        /\ IsZoneWrite(seg[1].data, 5, n)
            /\ (scanner = "GM65" /\ c.name = "set_same_barcode_delay"
                  /\ c.result.kind # "raise")
               => /\ n \in 0..top
                  /\ Len(seg) = 2
                  /\ seg[1].ev = "write"
                  /\ IsZoneWrite(seg[1].data, 19, 128 + n)
                  /\ seg[1].data[7] \div 128 = 1
                  /\ seg[1].data[7] % 128 = n

\* C27 as stated: with n = round(seconds x 10), GM65 set_read_interval sends the
\* single argument byte n for every n in 0..255, and set_same_barcode_delay sends,
\* for every input it accepts, the single byte 128 + n with n in 0..126: bit 7 is the
\* enable flag and the low 7 bits are n.
C27_IntervalEncoding == IntervalEncoding(126)

\* C27 amended: ... set_same_barcode_delay sends, for every input it accepts, the
\* single byte 128 + n with n in 0..127; bit 7 is the enable flag, the low 7 bits
\* are n, and n never reaches the enable bit.
C27_IntervalEncoding127 == IntervalEncoding(127)

\* C27: a delay of 12.66 s was accepted and sent as FF (n = 127).
C27_Witness ==
    /\ scanner = "GM65"
    /\ Len(calls) = 1
    /\ calls[1].name = "set_same_barcode_delay"
    /\ calls[1].arg = << 1266 >>
    /\ calls[1].result.kind = "pair"
    /\ trace[1].data = << 126, 0, 8, 1, 0, 19, 255 >> \o RefCrc16(<< 8, 1, 0, 19, 255 >>)

(***************************************************************************)
(* The bits a settings update may touch (checked under SpecBits).          *)
(***************************************************************************)
\* bit k of a byte, least significant first
BitOf(b, k) == (b \div (2 ^ k)) % 2

\* the bits of the settings byte that belong to an update
OwnBits(name) ==
    CASE name = "set_illumination" -> { 2, 3 }
      [] name = "set_aimer" -> { 4, 5 }
      [] name = "set_beeper" -> { 6 }
      [] name \in { "set_continuous_mode", "set_command_mode" } -> { 0, 1 }

\* C28: for every settings byte the device returns, the set-settings frame that a
\* completed set_illumination, set_aimer, set_beeper, set_continuous_mode or
\* set_command_mode writes carries one byte, in 0..255, that equals the byte
\* returned in every bit but the update's own (2 and 3, 4 and 5, 6, 0 and 1); bit 7
\* is the same in both.
C28_OwnBitsOnly ==
    \A i \in 1..Len(calls) :
        (calls[i].name \in { "set_illumination", "set_aimer", "set_beeper",
                             "set_continuous_mode", "set_command_mode" }
           /\ calls[i].result.kind # "raise")
        => LET seg == Segment(calls[i])
           IN  /\ Len(seg) >= 3
               /\ seg[2].ev = "read"
               /\ Len(seg[2].data) = 7
               /\ SubSeq(seg[2].data, 1, 4) = << 2, 0, 0, 1 >>
               /\ seg[3].ev = "write"
               /\ Len(seg[3].data) = 9
               /\ SubSeq(seg[3].data, 1, 6) = << 126, 0, 8, 1, 0, 0 >>
               /\ seg[3].data[7] \in 0..255
               /\ \A k \in (0..7) \ OwnBits(calls[i].name) :
                      BitOf(seg[3].data[7], k) = BitOf(seg[2].data[5], k)
               /\ BitOf(seg[3].data[7], 7) = BitOf(seg[2].data[5], 7)

\* C28: the device returned FF and set_aimer(-1) wrote back CF.
C28_Witness ==
    /\ Len(calls) = 1
    /\ calls[1].name = "set_aimer"
    /\ calls[1].arg = << -1 >>
    /\ calls[1].result = ReturnFlag(TRUE)
    /\ trace[2].data = GM65_reply_frame(<< 255 >>)
    /\ trace[3].data = SetSettingsFrame(207)
    /\ dev.settings = 207

(***************************************************************************)
(* The port after set_baudrate (checked under SpecSession).                *)
(***************************************************************************)
\* C29: in both classes set_baudrate(r) returns a flag, and whether the flag is true
\* or false the port is at r when it returns: r is the last rate assigned during the
\* call, everything the call does after that is done at r, the next command starts
\* at r, and after a false flag the port is at r and not back at its earlier rate.
C29_NoRollback ==
    \A i \in 1..Len(calls) :
        calls[i].name = "set_baudrate"
        => LET seg == Segment(calls[i])
               r == calls[i].arg[1]
           IN  /\ calls[i].result.kind = "flag"
               /\ \E k \in 1..Len(seg) :
                      /\ seg[k] = Event("baudrate", << >>, r)
                      /\ \A j \in (k + 1)..Len(seg) :
                             seg[j].ev # "baudrate" /\ seg[j].baud = r
               /\ i < Len(calls) => PortRateBefore(calls[i + 1]) = r
               /\ (i = Len(calls) /\ pc = "idle") => baudrate = r

\* C29: set_baudrate(19200) on a port at 9600 reported failure and the port is at
\* 19200.
C29_Witness ==
    /\ pc = "idle"
    /\ Len(calls) = 1
    /\ calls[1].name = "set_baudrate"
    /\ calls[1].arg = << 19200 >>
    /\ calls[1].result = ReturnFlag(FALSE)
    /\ trace[1].baud = 9600
    /\ baudrate = 19200

(***************************************************************************)
(* The mode bits of the stored settings byte (checked under SpecRmw).      *)
(***************************************************************************)
\* the set_continuous_mode and set_command_mode calls that completed
ModeCalls ==
    { i \in 1..Len(calls) :
        /\ calls[i].name \in { "set_continuous_mode", "set_command_mode" }
        /\ calls[i].result = ReturnFlag(TRUE) }

\* C30: on a GM65 module that stores the settings byte, once a set_continuous_mode
\* or set_command_mode has completed, exactly one of bits 0 and 1 of the stored byte
\* is set: bit 1 and not bit 0 if the latest of them was set_continuous_mode, bit 0
\* and not bit 1 if it was set_command_mode, whatever the byte was at first and
\* whatever illumination, aimer or beeper updates came before, between or after.
C30_ModeBitsExclusive ==
    ModeCalls # { }
    => LET last == CHOOSE i \in ModeCalls : \A j \in ModeCalls : j <= i
       IN  /\ BitOf(dev.settings, 0) + BitOf(dev.settings, 1) = 1
           /\ calls[last].name = "set_continuous_mode"
              => (BitOf(dev.settings, 1) = 1 /\ BitOf(dev.settings, 0) = 0)
           /\ calls[last].name = "set_command_mode"
              => (BitOf(dev.settings, 0) = 1 /\ BitOf(dev.settings, 1) = 0)

\* C30: from settings byte 03 (both mode bits set), set_continuous_mode and then
\* set_aimer(1) left the device with 32.
C30_Witness ==
    /\ Len(calls) = 2
    /\ calls[1].name = "set_continuous_mode"
    /\ calls[1].result = ReturnFlag(TRUE)
    /\ calls[2].name = "set_aimer"
    /\ calls[2].arg = << 1 >>
    /\ calls[2].result = ReturnFlag(TRUE)
    /\ trace[2].data = GM65_reply_frame(<< 3 >>)
    /\ dev.settings = 50

(***************************************************************************)
(* A rejected set_beeper(0) (checked under SpecBeeper).                    *)
(***************************************************************************)
\* the frames a set_beeper(0) call wrote: none on M3Y-W, and on GM65 the get-settings
\* frame and nothing else
BeeperZeroWrites ==
    \A i \in 1..Len(calls) :
        (calls[i].name = "set_beeper" /\ calls[i].arg = << 0 >>)
        => /\ calls[i].result.kind = "raise"
           /\ scanner = "M3YW" => Segment(calls[i]) = << >>
           /\ scanner = "GM65"
              => /\ Len(Writes(Segment(calls[i]))) = 1
                 /\ \A k \in 1..Len(Segment(calls[i])) :
                        Segment(calls[i])[k].ev = "write"
                        => /\ Segment(calls[i])[k].data = GetSettingsFrame
                           /\ ~IsSetSettingsWrite(Segment(calls[i])[k])
                           /\ Segment(calls[i])[k].data # SaveSettingsFrame

\* a step in which a set_beeper(0) call is made leaves the device as it was
BeeperZeroStep ==
    (/\ Len(calls') = Len(calls) + 1
     /\ calls'[Len(calls')].name = "set_beeper"
     /\ calls'[Len(calls')].arg = << 0 >>)
    => dev' = dev

\* C31: a set_beeper(0) call is rejected and changes nothing on the device: on GM65
\* it writes the get-settings frame only, no set-settings and no save-settings
\* frame, and the device's stored settings byte is the same after the call as
\* before; on M3Y-W it writes no frame at all.
C31_RejectedBeeperNoEffect == [](BeeperZeroWrites) /\ [][BeeperZeroStep]_vars

\* C31: a GM65 module holding settings byte 55 (beeper on) was asked set_beeper(0):
\* one frame was written, the call was rejected and the byte is still 55.
C31_Witness ==
    /\ scanner = "GM65"
    /\ dev.dialect = "GM65"
    /\ Len(calls) = 1
    /\ calls[1].name = "set_beeper"
    /\ calls[1].arg = << 0 >>
    /\ calls[1].result = Raise("NotImplementedError")
    /\ Len(trace) = 2
    /\ trace[1].data = GetSettingsFrame
    /\ trace[2].data = GM65_reply_frame(<< 85 >>)
    /\ dev.settings = 85

====
